---- MODULE Spec2Model ----
(***************************************************************************)
(* Model of src/junk/ssh_runner_v2.py (EnhancedSSHRunner): the per-host    *)
(* session, the shell-mode output harvester and the multi-host             *)
(* orchestrator.                                                           *)
(*                                                                         *)
(* The specifications share the per-host task actions:                     *)
(*   SpecMulti  run_application's multi-host branch: a thread pool runs    *)
(*              one task per entry of the host list (direct-exec mode),    *)
(*              the main thread aggregates the futures.                    *)
(*   FairMulti  SpecMulti under the scheduling of the pool and the main    *)
(*              thread.                                                    *)
(*   SpecHost   run_application's single-host branch: the task runs on the *)
(*              main thread, in direct mode or in shell mode with the      *)
(*              harvester, and Ctrl+C (KeyboardInterrupt) is delivered to  *)
(*              it.                                                        *)
(***************************************************************************)
EXTENDS Integers, Sequences, FiniteSets, TLC

\* ------------------------------------------------------------------ bounds
MaxHosts == 2
MaxCmds == 2
HostNames == {"h1", "h2"}
RecvMax == 2          \* most characters one shell.recv(131072) adds, in size units
MaxOutputSize == 3    \* max_output_size (100 MiB), scaled to the same units
MaxInterrupts == 1    \* Ctrl+C presses in one run

\* ------------------------------------------------- constants of the harvester
\* Time is counted in units of no_data_timeout (3 s), which divides the other
\* timing constants of _execute_with_shell.  The polling loops sleep 0.01 to
\* 0.2 s per pass, so between two reads of the clock at the top of a loop the
\* time, in units, advanced by 0 or by 1.
Unit == 3
NoDataTimeout == 3 \div Unit     \* no_data_timeout = 3.0
MaxTotalWait == 120 \div Unit    \* max_total_wait = 120
HardTimeout == 90 \div Unit      \* if current_duration > 90
MaxDrainTime == 30 \div Unit     \* max_drain_time = 30
MaxCmdWait == 6 \div Unit        \* max_cmd_wait = 6
Steps == {0, 1}

\* ------------------------------------------------------------- vocabulary
NoResult == [none |-> TRUE]
\* a future that is not done holds no result tuple
NoFuture == <<>>
NoReport == [none |-> TRUE]
NoCall == [none |-> TRUE]
\* the output buffer: retained device data (in units), whether a line that
\* survives cleaning is in it, whether an error pattern is in it, and the
\* markers the harvester appended
EmptyOutput == [data |-> 0, keep |-> FALSE, err |-> FALSE, markers |-> {}]
\* failure classes of connect (the except clauses of connect)
ConnectFailures == {"dns", "timeout", "auth", "ssh", "unknown"}
ConnectOutcomes == {"ok"} \cup ConnectFailures
\* outcomes of one direct-mode command
DirectOutcomes == {"exit0", "exit0_silent", "nonzero", "raise"}

VARIABLES
    hosts,            \* final_hosts: the validated host list (duplicates possible)
    commands,         \* commands_to_run: the command list, as command ids
    use_shell,        \* use_shell_mode
    max_threads,      \* worker pool size
    pc,               \* per task: position of the host task
    client,           \* per task: runner.client ("none", "created", "connected")
    cmd_i,            \* per task: index i of the command loop
    overall_success,  \* per task: overall_success of run_multiple_ssh_commands
    task_ret,         \* per task: value the run_* function returns (read once pc is past "exec")
    connErr,          \* per task: class of the connect failure that was logged
    raised,           \* per task: an exception escaped run_ssh_command / run_multiple_ssh_commands
    connAttempts,     \* per task: number of transport handshakes attempted
    transport,        \* per task: the client's transport ("none", "open", "closed")
    future,           \* per task: the future's result tuple
    log,              \* per task: messages appended to the per-host log file
    sink_ok,          \* per task: whether the per-host log file can be written
    main_pc,          \* position of the main thread
    results,          \* results dict of run_ssh_commands_multi_host
    successful_hosts, \* list
    failed_hosts,     \* list
    processed,        \* futures already yielded by as_completed
    report,           \* the dict run_ssh_commands_multi_host returns
    printed,          \* what the run printed: "summary", "cancelled", "fatal"
    app_ret,          \* value run_application returns (read once main_pc = "done")
    \* _execute_with_shell, for the command the main-thread task is running
    sh_pc,            \* position inside _execute_with_shell ("idle" outside it)
    now,              \* time.time() - start_time, in time units
    last_data_time,   \* last_data_time - start_time
    drain_start,      \* drain_start - start_time
    cmd_wait,         \* cmd_wait
    output,           \* the output buffer
    shell_open,       \* the channels invoke_shell returned that are not closed
    \* history of the run
    sent,             \* per task: commands sent to the device, in order
    shells_opened,    \* number of channels invoke_shell returned
    interrupts,       \* number of Ctrl+C delivered
    int_seen,         \* a Ctrl+C arrived while the host's commands were run
    sent_at_int,      \* Len(sent) when it arrived
    propagating,      \* a KeyboardInterrupt is unwinding to run_application
    \* one EnhancedSSHRunner object driven through its methods (SpecSession)
    conn_args,        \* the arguments of connect
    api_ret,          \* what the last method call returned
    channels,         \* channels opened on the transport by execute_command
    \* one call of a static method
    call,             \* the method and its arguments
    result            \* its return value

taskVars == <<pc, client, cmd_i, overall_success, task_ret, connErr, raised,
              connAttempts, transport, future, log, sink_ok>>
mainVars == <<main_pc, results, successful_hosts, failed_hosts, processed,
              report, printed, app_ret>>
inputVars == <<hosts, commands, use_shell, max_threads>>
shellVars == <<sh_pc, now, last_data_time, drain_start, cmd_wait, output,
               shell_open>>
histVars == <<shells_opened, interrupts, int_seen,
              sent_at_int, propagating>>
auxVars == <<conn_args, api_ret, channels, call, result>>
vars == <<inputVars, taskVars, mainVars, shellVars, histVars, sent, auxVars>>

Tasks == 1..Len(hosts)

\* ----------------------------------------------------------- the log sink
\* write_to_host_log: empty messages are dropped, a failing sink is logged
\* and swallowed, otherwise the message is appended.
WriteToHostLog(l, ok, msgs) == IF ok THEN l \o msgs ELSE l

\* --------------------------------------------------------------- summaries
\* the third component of the tuple run_ssh_command_on_host returns
SummarySingle(c) == [kind |-> "Single command", detail |-> c]
SummaryMulti(n) == [kind |-> "commands executed", detail |-> n]
SummaryError(e) == [kind |-> "Error", detail |-> e]

\* mutant of HostResult: the except clause is missing, the value computed
\* before the exception is reported.
HostResult_NoCatch(h, exc, ret, cmds) ==
    IF Len(cmds) = 1 THEN <<h, ret, SummarySingle(cmds[1])>>
    ELSE <<h, ret, SummaryMulti(Len(cmds))>>

\* run_ssh_command_on_host: the tuple of a task whose run_* call returned ret,
\* or raised (exc = TRUE).
HostResult(h, exc, ret, cmds) ==
    IF exc THEN <<h, FALSE, SummaryError("close failed")>>
    ELSE IF Len(cmds) = 1 THEN <<h, ret, SummarySingle(cmds[1])>>
    ELSE <<h, ret, SummaryMulti(Len(cmds))>>

\* ------------------------------------------------------------ task actions
Running == {t \in Tasks : pc[t] \notin {"unsubmitted", "pending", "done"}}

\* mutant of StartTask: the worker itself records the host in the shared
\* results map
StartTask_WritesResults(t) ==
    /\ pc[t] = "pending"
    /\ Cardinality(Running) < max_threads
    /\ log' = [log EXCEPT ![t] = WriteToHostLog(<<>>, sink_ok[t], <<<<"header">>>>)]
    /\ pc' = [pc EXCEPT ![t] = "connect"]
    /\ results' = [results EXCEPT ![hosts[t]] = [success |-> FALSE, summary |-> SummaryError("started")]]
    /\ UNCHANGED <<client, cmd_i, overall_success, task_ret, connErr, raised,
                   connAttempts, transport, future, sink_ok, inputVars, auxVars, main_pc, successful_hosts, failed_hosts, processed, report, printed, app_ret, shellVars, histVars, sent>>

\* a pool worker takes a pending work item; the task creates its log file
\* and writes the header.
StartTask(t) ==
    /\ pc[t] = "pending"
    /\ Cardinality(Running) < max_threads
    /\ log' = [log EXCEPT ![t] = WriteToHostLog(<<>>, sink_ok[t], <<<<"header">>>>)]
    /\ pc' = [pc EXCEPT ![t] = "connect"]
    /\ UNCHANGED <<client, cmd_i, overall_success, task_ret, connErr, raised,
                   connAttempts, transport, future, sink_ok, inputVars, auxVars, mainVars, shellVars, histVars, sent>>

\* the transport SSHClient.connect leaves behind: name resolution and the
\* TCP connect fail before a transport exists; the key exchange and the
\* authentication fail on a transport that was started
TransportAfterConnect(o) ==
    IF o \in {"ok", "auth", "ssh"} THEN "open" ELSE "none"

\* the transport once client.close() returned
TransportAfterClose(tr) == IF tr = "open" THEN "closed" ELSE tr

\* mutant of AfterConnectFailure: the caller connects again
AfterConnectFailure_Retry == "connect"

\* where the caller goes when connect returned False: `return False` runs
\* the finally block
AfterConnectFailure == "finally"

\* runner.connect and the caller's test of its result.
Connect(t) ==
    /\ pc[t] = "connect"
    /\ connAttempts' = [connAttempts EXCEPT ![t] = @ + 1]
    /\ \E o \in ConnectOutcomes :
         IF o = "ok"
         THEN /\ client' = [client EXCEPT ![t] = "connected"]
              /\ transport' = [transport EXCEPT ![t] = TransportAfterConnect(o)]
              /\ pc' = [pc EXCEPT ![t] = "exec"]
              /\ log' = [log EXCEPT ![t] =
                     IF Len(commands) = 1 THEN @
                     ELSE WriteToHostLog(@, sink_ok[t], <<<<"executing">>>>)]
              /\ UNCHANGED <<connErr, task_ret>>
         ELSE /\ client' = [client EXCEPT ![t] = "created"]
              /\ transport' = [transport EXCEPT ![t] = TransportAfterConnect(o)]
              /\ connErr' = [connErr EXCEPT ![t] = o]
              /\ task_ret' = [task_ret EXCEPT ![t] = FALSE]
              /\ pc' = [pc EXCEPT ![t] = AfterConnectFailure]
              /\ log' = [log EXCEPT ![t] =
                     WriteToHostLog(@, sink_ok[t], <<<<"connect failed">>>>)]
    /\ UNCHANGED <<cmd_i, overall_success, raised, future, sink_ok,
                   inputVars, auxVars, mainVars, shellVars, histVars, sent>>

\* the result (success, stdout non-empty, stderr non-empty) of _execute_direct
\* as seen through execute_command's exception handlers.
DirectResult(o) ==
    CASE o = "exit0" -> [success |-> TRUE, stdout |-> TRUE, stderr |-> FALSE]
      [] o = "exit0_silent" -> [success |-> TRUE, stdout |-> FALSE, stderr |-> FALSE]
      [] o = "nonzero" -> [success |-> FALSE, stdout |-> TRUE, stderr |-> TRUE]
      [] o = "raise" -> [success |-> FALSE, stdout |-> FALSE, stderr |-> TRUE]

\* mutant of CommandLog: the command's output and result are not logged
CommandLog_Nothing(k, r) == <<>>

\* what the command loop writes for command k once execute_command returned r
CommandLog(k, r) ==
    (IF r.stdout THEN <<<<"OUTPUT", k>>>> ELSE <<>>)
    \o (IF r.stderr THEN <<<<"ERRORS", k>>>> ELSE <<>>)
    \o <<<<(IF r.success THEN "executed successfully" ELSE "failed"), k>>>>

\* mutant of AfterCommand: a command whose result could not be logged counts
\* as failed
AfterCommand_SinkCounts(t, r) ==
    LET k == cmd_i[t]
        ov == overall_success[t] /\ r.success /\ sink_ok[t]
        last == k = Len(commands)
    IN  /\ overall_success' = [overall_success EXCEPT ![t] = ov]
        /\ IF Len(commands) = 1
           THEN \* run_ssh_command
                /\ log' = [log EXCEPT ![t] = WriteToHostLog(@, sink_ok[t],
                              <<<<"COMMAND OUTPUT">>>> \o CommandLog(k, r))]
                /\ task_ret' = [task_ret EXCEPT ![t] = r.success /\ sink_ok[t]]
                /\ pc' = [pc EXCEPT ![t] = "finally"]
                /\ UNCHANGED cmd_i
           ELSE \* run_multiple_ssh_commands
                /\ log' = [log EXCEPT ![t] = WriteToHostLog(@, sink_ok[t],
                              CommandLog(k, r)
                              \o (IF last THEN <<<<"final", ov>>>> ELSE <<>>))]
                /\ IF last
                   THEN /\ task_ret' = [task_ret EXCEPT ![t] = ov]
                        /\ pc' = [pc EXCEPT ![t] = "finally"]
                        /\ UNCHANGED cmd_i
                   ELSE /\ cmd_i' = [cmd_i EXCEPT ![t] = k + 1]
                        /\ pc' = [pc EXCEPT ![t] = "exec"]
                        /\ UNCHANGED task_ret

\* mutant of AfterCommand: the loop is left at the first failed command
AfterCommand_StopsAtFailure(t, r) ==
    LET k == cmd_i[t]
        ov == overall_success[t] /\ r.success
        last == k = Len(commands) \/ ~r.success
    IN  /\ overall_success' = [overall_success EXCEPT ![t] = ov]
        /\ IF Len(commands) = 1
           THEN /\ log' = [log EXCEPT ![t] = WriteToHostLog(@, sink_ok[t],
                              <<<<"COMMAND OUTPUT">>>> \o CommandLog(k, r))]
                /\ task_ret' = [task_ret EXCEPT ![t] = r.success]
                /\ pc' = [pc EXCEPT ![t] = "finally"]
                /\ UNCHANGED cmd_i
           ELSE /\ log' = [log EXCEPT ![t] = WriteToHostLog(@, sink_ok[t],
                              CommandLog(k, r)
                              \o (IF last THEN <<<<"final", ov>>>> ELSE <<>>))]
                /\ IF last
                   THEN /\ task_ret' = [task_ret EXCEPT ![t] = ov]
                        /\ pc' = [pc EXCEPT ![t] = "finally"]
                        /\ UNCHANGED cmd_i
                   ELSE /\ cmd_i' = [cmd_i EXCEPT ![t] = k + 1]
                        /\ pc' = [pc EXCEPT ![t] = "exec"]
                        /\ UNCHANGED task_ret

\* the part of the loop body after execute_command returned r for command
\* cmd_i[t], and, after the last command, the end of the try block.
AfterCommand(t, r) ==
    LET k == cmd_i[t]
        ov == overall_success[t] /\ r.success
        last == k = Len(commands)
    IN  /\ overall_success' = [overall_success EXCEPT ![t] = ov]
        /\ IF Len(commands) = 1
           THEN \* run_ssh_command
                /\ log' = [log EXCEPT ![t] = WriteToHostLog(@, sink_ok[t],
                              <<<<"COMMAND OUTPUT">>>> \o CommandLog(k, r))]
                /\ task_ret' = [task_ret EXCEPT ![t] = r.success]
                /\ pc' = [pc EXCEPT ![t] = "finally"]
                /\ UNCHANGED cmd_i
           ELSE \* run_multiple_ssh_commands
                /\ log' = [log EXCEPT ![t] = WriteToHostLog(@, sink_ok[t],
                              CommandLog(k, r)
                              \o (IF last THEN <<<<"final", ov>>>> ELSE <<>>))]
                /\ IF last
                   THEN /\ task_ret' = [task_ret EXCEPT ![t] = ov]
                        /\ pc' = [pc EXCEPT ![t] = "finally"]
                        /\ UNCHANGED cmd_i
                   ELSE /\ cmd_i' = [cmd_i EXCEPT ![t] = k + 1]
                        /\ pc' = [pc EXCEPT ![t] = "exec"]
                        /\ UNCHANGED task_ret

\* one pass of the command loop in direct mode (use_shell = False)
ExecDirect(t) ==
    /\ pc[t] = "exec"
    /\ ~use_shell
    /\ \E o \in DirectOutcomes : AfterCommand(t, DirectResult(o))
    /\ sent' = [sent EXCEPT ![t] = Append(@, cmd_i[t])]
    /\ UNCHANGED <<client, connErr, raised, connAttempts, transport, future, sink_ok,
                   inputVars, auxVars, mainVars, shellVars, histVars>>

\* the Status line of the session footer
FooterStatus(t) ==
    IF Len(commands) = 1
    THEN task_ret[t]            \* 'success' in locals() and success
    ELSE overall_success[t]

\* client.close() in disconnect: closing a connected transport may raise
CloseOutcomes(c) == IF c = "connected" THEN BOOLEAN ELSE {TRUE}

\* the finally block (disconnect, footer) and the return to
\* run_ssh_command_on_host, which builds the future's result.
Finally(t) ==
    /\ pc[t] = "finally"
    /\ main_pc # "single"
    /\ \E closeOk \in CloseOutcomes(client[t]) :
         IF closeOk
         THEN /\ client' = [client EXCEPT ![t] = "none"]
              /\ transport' = [transport EXCEPT ![t] = TransportAfterClose(@)]
              /\ log' = [log EXCEPT ![t] = WriteToHostLog(@, sink_ok[t],
                            <<<<"footer", FooterStatus(t)>>>>)]
              /\ future' = [future EXCEPT ![t] =
                            HostResult(hosts[t], FALSE, task_ret[t], commands)]
              /\ UNCHANGED raised
         ELSE \* client.close() raises: the exception leaves the finally block
              /\ raised' = [raised EXCEPT ![t] = TRUE]
              /\ future' = [future EXCEPT ![t] =
                            HostResult(hosts[t], TRUE, task_ret[t], commands)]
              /\ UNCHANGED <<client, transport, log>>
    /\ pc' = [pc EXCEPT ![t] = "done"]
    /\ UNCHANGED <<cmd_i, overall_success, task_ret, connErr, connAttempts,
                   sink_ok, inputVars, auxVars, mainVars, shellVars, histVars, sent>>

\* ------------------------------------------------------ shell-mode execution
\* what one received chunk contains: only echo/prompt noise that cleaning
\* removes, a genuine output line, or a line with an error pattern.  Its
\* size is what decode('utf-8', errors='ignore') leaves of it, in size units
\* (0: less than one unit).
ChunkKinds == {"noise", "data", "error"}

\* output += chunk
AppendChunk(out, size, kind) ==
    [out EXCEPT !.data = @ + size,
                !.keep = @ \/ kind \in {"data", "error"},
                !.err = @ \/ kind = "error"]

\* output += "[... marker ...]"
AppendMarker(out, mk) == [out EXCEPT !.markers = @ \cup {mk}]

\* what one line of the collected output is to the post-processing: blank;
\* the echo of the command; a line of the device's output that contains the
\* text of the command ("mention"); a line with a shell artifact or a
\* prompt; an ordinary line; a line with one of error_patterns; a line that
\* passes the filters and, once its control sequences are removed, contains
\* one of shell_cleanup_indicators.
LineKinds ==
    {"blank", "echo", "mention", "artifact", "plain", "error", "cleanup"}

\* command.strip() in line
ContainsCommand(line) == line \in {"echo", "mention"}

\* the cleaning loop: blank lines, the first line that contains the command,
\* artifacts and prompts are dropped
RECURSIVE CleanLines(_, _)
CleanLines(lines, command_found) ==
    IF lines = <<>> THEN <<>>
    ELSE LET line == Head(lines)
         IN  IF line = "blank" THEN CleanLines(Tail(lines), command_found)
             ELSE IF ~command_found /\ ContainsCommand(line)
             THEN CleanLines(Tail(lines), TRUE)
             ELSE IF line = "artifact"
             THEN CleanLines(Tail(lines), command_found)
             ELSE <<line>> \o CleanLines(Tail(lines), command_found)

\* mutant of SuccessDetermination: any collected line makes a success
SuccessDetermination_AnyLine(cleaned_lines) == TRUE

\* success determination over the cleaned lines
SuccessDetermination(cleaned_lines) ==
    LET success == Len(cleaned_lines) > 0
        is_shell_cleanup ==
            \E i \in 1..Len(cleaned_lines) : cleaned_lines[i] = "cleanup"
        has_error ==
            \E i \in 1..Len(cleaned_lines) : cleaned_lines[i] = "error"
    IN  IF ~is_shell_cleanup /\ has_error THEN FALSE ELSE success

\* the cleaned lines of a collected output whose chunks hold no cleanup
\* indicator: the harvester's markers are lines that survive cleaning
CleanedLinesOf(out) ==
    (IF out.keep THEN <<IF out.err THEN "error" ELSE "plain">> ELSE <<>>)
    \o (IF out.markers # {} THEN <<"plain">> ELSE <<>>)

\* post-processing and success determination
ShellResult(out) ==
    LET cleaned_lines == CleanedLinesOf(out)
    IN  [success |-> SuccessDetermination(cleaned_lines),
         stdout |-> cleaned_lines # <<>>, stderr |-> FALSE]

\* (False, "", error_msg): the except clauses of _execute_with_shell and the
\* failed send
ShellError == [success |-> FALSE, stdout |-> FALSE, stderr |-> TRUE]

\* _execute_with_shell returns r to the command loop
ShellReturn(t, r) ==
    /\ AfterCommand(t, r)
    /\ sh_pc' = "idle"
    /\ now' = 0
    /\ last_data_time' = 0
    /\ drain_start' = 0
    /\ cmd_wait' = 0
    /\ output' = EmptyOutput

\* mutant of HangDetected: the hard timeout never fires
HangDetected_Never(current_duration) == FALSE

\* the hard timeout test of the collection loop
HangDetected(current_duration) == current_duration > HardTimeout

\* mutant of OverLimit: the size limit is never detected
OverLimit_Never(out) == FALSE

\* the size limit test, made after the chunk was appended
OverLimit(out) == out.data > MaxOutputSize

\* mutant of ChannelsAfterInvoke: a channel that was opened for an earlier
\* command is used again
ChannelsAfterInvoke_Reuse(n) == IF n = 0 THEN 1 ELSE n

\* invoke_shell returns a new channel on every call
ChannelsAfterInvoke(n) == n + 1

\* execute_command in shell mode: start_time is taken, invoke_shell is called
ShellOpen(t) ==
    /\ pc[t] = "exec"
    /\ use_shell
    /\ sh_pc = "idle"
    /\ \E ok \in BOOLEAN :
         IF ok
         THEN /\ shells_opened' = ChannelsAfterInvoke(shells_opened)
              /\ shell_open' = shell_open + 1
              /\ sh_pc' = "prompt_wait"
              /\ \E d \in Steps : now' = d
              /\ UNCHANGED <<last_data_time, drain_start, cmd_wait, output,
                             overall_success, log, task_ret, pc, cmd_i>>
         ELSE /\ ShellReturn(t, ShellError)
              /\ UNCHANGED <<shells_opened, shell_open>>
    /\ UNCHANGED <<client, connErr, raised, connAttempts, transport, future, sink_ok,
                   inputVars, auxVars, mainVars, sent, interrupts,
                   int_seen, sent_at_int, propagating>>

\* the initial-prompt wait: its first pass sleeps, reads what is ready, logs
\* initial_sample and breaks; with nothing ready initial_sample is unbound
\* and the logging statement raises.
PromptWait(t) ==
    /\ sh_pc = "prompt_wait"
    /\ \E ready \in BOOLEAN, d \in Steps :
         IF ready
         THEN /\ sh_pc' = "send"
              /\ now' = now + d
              /\ UNCHANGED <<last_data_time, drain_start, cmd_wait, output,
                             overall_success, log, task_ret, pc, cmd_i>>
         ELSE ShellReturn(t, ShellError)
    /\ UNCHANGED <<client, connErr, raised, connAttempts, transport, future, sink_ok,
                   inputVars, auxVars, mainVars, sent, shell_open, histVars>>

\* shell.send(command + '\n')
Send(t) ==
    /\ sh_pc = "send"
    /\ \E ok \in BOOLEAN :
         IF ok
         THEN /\ sent' = [sent EXCEPT ![t] = Append(@, cmd_i[t])]
              /\ sh_pc' = "cmd_wait"
              /\ cmd_wait' = 0
              /\ UNCHANGED <<now, last_data_time, drain_start, output,
                             overall_success, log, task_ret, pc, cmd_i>>
         ELSE /\ ShellReturn(t, ShellError)
              /\ UNCHANGED sent
    /\ UNCHANGED <<client, connErr, raised, connAttempts, transport, future, sink_ok,
                   inputVars, auxVars, mainVars, shell_open, histVars>>

\* the wait for the command to start answering, then the initialisation of
\* the collection loop
CmdWait(t) ==
    /\ sh_pc = "cmd_wait"
    /\ IF cmd_wait < MaxCmdWait
       THEN \E ready \in BOOLEAN, d \in Steps :
              /\ now' = now + d
              /\ cmd_wait' = cmd_wait + d
              /\ IF ready
                 THEN /\ sh_pc' = "collect"
                      /\ last_data_time' = now + d
                 ELSE UNCHANGED <<sh_pc, last_data_time>>
       ELSE /\ sh_pc' = "collect"
            /\ last_data_time' = now
            /\ UNCHANGED <<now, cmd_wait>>
    /\ UNCHANGED <<drain_start, output, shell_open, taskVars, inputVars, auxVars,
                   mainVars, histVars, sent>>

\* the collection loop is left: cleanup follows; the loop's clock readings
\* are not used again (command_duration is only logged)
EndCollect(out) ==
    /\ output' = out
    /\ sh_pc' = "cleanup"
    /\ now' = 0
    /\ last_data_time' = 0
    /\ drain_start' = 0

\* one pass of the collection loop
CollectPoll(t) ==
    /\ sh_pc = "collect"
    /\ IF ~(now < MaxTotalWait)
       THEN EndCollect(output)
       ELSE IF HangDetected(now)
       THEN EndCollect(AppendMarker(output, "timeout"))
       ELSE \E ready \in BOOLEAN, d \in Steps :
              IF ready
              THEN \E size \in 0..RecvMax, kind \in ChunkKinds :
                     LET out == AppendChunk(output, size, kind)
                     IN  /\ last_data_time' = now
                         /\ IF OverLimit(out)
                            THEN /\ output' = AppendMarker(out, "truncated")
                                 /\ drain_start' = now
                                 /\ sh_pc' = "drain"
                                 /\ UNCHANGED now
                            ELSE /\ output' = out
                                 /\ now' = now + d
                                 /\ UNCHANGED <<drain_start, sh_pc>>
              ELSE IF now - last_data_time >= NoDataTimeout
                   THEN EndCollect(output)
                   ELSE /\ now' = now + d
                        /\ UNCHANGED <<last_data_time, drain_start, output,
                                       sh_pc>>
    /\ UNCHANGED <<cmd_wait, shell_open, taskVars, inputVars, auxVars, mainVars, sent,
                   shells_opened, interrupts, int_seen,
                   sent_at_int, propagating>>

\* one pass of the drain loop that follows the size limit
DrainPoll(t) ==
    /\ sh_pc = "drain"
    /\ IF ~(now - drain_start < MaxDrainTime)
       THEN EndCollect(output)
       ELSE \E ready \in BOOLEAN, d \in Steps :
              IF ready
              THEN /\ last_data_time' = now
                   /\ now' = now + d
                   /\ UNCHANGED <<drain_start, output, sh_pc>>
              ELSE IF now - last_data_time >= NoDataTimeout
                   THEN EndCollect(output)
                   ELSE /\ now' = now + d
                        /\ UNCHANGED <<last_data_time, drain_start, output,
                                       sh_pc>>
    /\ UNCHANGED <<cmd_wait, shell_open, taskVars, inputVars, auxVars, mainVars, sent,
                   shells_opened, interrupts, int_seen,
                   sent_at_int, propagating>>

\* the cleanup phase: exit is sent and trailing bytes are read and dropped
\* for at most max_cleanup_time; its errors are logged only
Cleanup(t) ==
    /\ sh_pc = "cleanup"
    /\ sh_pc' = "close"
    /\ UNCHANGED <<now, last_data_time, drain_start, cmd_wait, output,
                   shell_open, taskVars, inputVars, auxVars, mainVars, histVars, sent>>

\* shell.close() (an error is logged only), post-processing, success
\* determination and the return to the command loop
CloseReturn(t) ==
    /\ sh_pc = "close"
    /\ \E closed \in BOOLEAN :
         shell_open' = IF closed THEN shell_open - 1 ELSE shell_open
    /\ ShellReturn(t, ShellResult(output))
    /\ UNCHANGED <<client, connErr, raised, connAttempts, transport, future, sink_ok,
                   inputVars, auxVars, mainVars, sent, histVars>>

\* ------------------------------------------- Ctrl+C in the single-host path
NoteInterrupt(t) ==
    /\ interrupts < MaxInterrupts
    /\ interrupts' = interrupts + 1
    /\ int_seen' = TRUE
    /\ sent_at_int' = IF int_seen THEN sent_at_int ELSE Len(sent[t])

\* mutant of InterruptCollect: the handler returns only the marker
InterruptCollect_Discards(t) ==
    /\ sh_pc \in {"collect", "drain"}
    /\ NoteInterrupt(t)
    /\ EndCollect(AppendMarker(EmptyOutput, "interrupted"))
    /\ UNCHANGED <<cmd_wait, shell_open, taskVars, inputVars, auxVars, mainVars, sent,
                   shells_opened, propagating>>

\* KeyboardInterrupt inside the collection loop (or its drain loop): the
\* handler after the loop appends the marker and falls through to cleanup
InterruptCollect(t) ==
    /\ sh_pc \in {"collect", "drain"}
    /\ NoteInterrupt(t)
    /\ EndCollect(AppendMarker(output, "interrupted"))
    /\ UNCHANGED <<cmd_wait, shell_open, taskVars, inputVars, auxVars, mainVars, sent,
                   shells_opened, propagating>>

\* KeyboardInterrupt inside the cleanup phase: logged, the shell is closed
InterruptCleanup(t) ==
    /\ sh_pc = "cleanup"
    /\ NoteInterrupt(t)
    /\ sh_pc' = "close"
    /\ UNCHANGED <<now, last_data_time, drain_start, cmd_wait, output,
                   shell_open, taskVars, inputVars, auxVars, mainVars, sent,
                   shells_opened, propagating>>

\* KeyboardInterrupt anywhere else in the loop body: it leaves
\* execute_command (no handler there catches it, an open shell is left open).
\* run_multiple_ssh_commands catches it in the loop, marks the host failed
\* and breaks; run_ssh_command has no handler and lets it propagate.
InterruptCommand(t) ==
    /\ pc[t] = "exec"
    /\ sh_pc \in {"idle", "prompt_wait", "send", "cmd_wait", "close"}
    /\ NoteInterrupt(t)
    /\ sh_pc' = "idle"
    /\ now' = 0
    /\ last_data_time' = 0
    /\ drain_start' = 0
    /\ cmd_wait' = 0
    /\ output' = EmptyOutput
    /\ pc' = [pc EXCEPT ![t] = "finally"]
    /\ IF Len(commands) = 1
       THEN /\ propagating' = TRUE
            /\ UNCHANGED <<overall_success, task_ret, log>>
       ELSE /\ overall_success' = [overall_success EXCEPT ![t] = FALSE]
            /\ task_ret' = [task_ret EXCEPT ![t] = FALSE]
            /\ log' = [log EXCEPT ![t] = WriteToHostLog(@, sink_ok[t],
                          <<<<"interrupted", cmd_i[t]>>, <<"final", FALSE>>>>)]
            /\ UNCHANGED propagating
    /\ UNCHANGED <<client, cmd_i, connErr, raised, connAttempts, transport, future,
                   sink_ok, inputVars, auxVars, mainVars, sent, shell_open,
                   shells_opened>>

\* KeyboardInterrupt before the command loop is entered: only the finally
\* block runs on the way out
InterruptConnect(t) ==
    /\ pc[t] = "connect"
    /\ interrupts < MaxInterrupts
    /\ interrupts' = interrupts + 1
    /\ propagating' = TRUE
    /\ pc' = [pc EXCEPT ![t] = "finally"]
    /\ UNCHANGED <<client, cmd_i, overall_success, task_ret, connErr, raised,
                   connAttempts, transport, future, log, sink_ok, inputVars, auxVars, mainVars,
                   shellVars, sent, shells_opened, int_seen, sent_at_int>>

\* mutant of ExitCode: the process always exits with 0
ExitCode_AlwaysZero(success) == 0

\* ssh_runner_main: sys.exit(0 if success else 1)
ExitCode(success) == IF success THEN 0 ELSE 1

\* mutant of FinallyHost: the finally block does not call disconnect
FinallyHost_NoDisconnect(t) ==
    /\ pc[t] = "finally"
    /\ main_pc = "single"
    /\ \E closeOk \in CloseOutcomes(client[t]) :
         IF closeOk
         THEN /\ UNCHANGED <<client, transport>>
              /\ log' = [log EXCEPT ![t] = WriteToHostLog(@, sink_ok[t],
                            <<<<"footer", FooterStatus(t)>>>>)]
              /\ printed' = IF propagating THEN printed \cup {"cancelled"}
                            ELSE printed
              /\ app_ret' = IF propagating THEN FALSE ELSE task_ret[t]
              /\ UNCHANGED raised
         ELSE /\ raised' = [raised EXCEPT ![t] = TRUE]
              /\ printed' = printed \cup {"fatal"}
              /\ app_ret' = FALSE
              /\ UNCHANGED <<client, transport, log>>
    /\ pc' = [pc EXCEPT ![t] = "done"]
    /\ main_pc' = "done"
    /\ UNCHANGED <<cmd_i, overall_success, task_ret, connErr, connAttempts,
                   future, sink_ok, inputVars, auxVars, results, successful_hosts,
                   failed_hosts, processed, report, shellVars, histVars, sent>>

\* the finally block when run_application called the function itself, and
\* run_application's return or exception handlers
FinallyHost(t) ==
    /\ pc[t] = "finally"
    /\ main_pc = "single"
    /\ \E closeOk \in CloseOutcomes(client[t]) :
         IF closeOk
         THEN /\ client' = [client EXCEPT ![t] = "none"]
              /\ transport' = [transport EXCEPT ![t] = TransportAfterClose(@)]
              /\ log' = [log EXCEPT ![t] = WriteToHostLog(@, sink_ok[t],
                            <<<<"footer", FooterStatus(t)>>>>)]
              /\ printed' = IF propagating THEN printed \cup {"cancelled"}
                            ELSE printed
              /\ app_ret' = IF propagating THEN FALSE ELSE task_ret[t]
              /\ UNCHANGED raised
         ELSE /\ raised' = [raised EXCEPT ![t] = TRUE]
              /\ printed' = printed \cup {"fatal"}
              /\ app_ret' = FALSE
              /\ UNCHANGED <<client, transport, log>>
    /\ pc' = [pc EXCEPT ![t] = "done"]
    /\ main_pc' = "done"
    /\ UNCHANGED <<cmd_i, overall_success, task_ret, connErr, connAttempts,
                   future, sink_ok, inputVars, auxVars, results, successful_hosts,
                   failed_hosts, processed, report, shellVars, histVars, sent>>

\* ------------------------------------------------ the multi-host main thread
\* the dict comprehension that submits one task per entry of hosts
SubmitAll ==
    /\ main_pc = "submit"
    /\ pc' = [t \in 1..MaxHosts |-> IF t \in Tasks THEN "pending" ELSE pc[t]]
    /\ main_pc' = "collect"
    /\ UNCHANGED <<client, cmd_i, overall_success, task_ret, connErr, raised,
                   connAttempts, transport, future, log, sink_ok, inputVars, auxVars, results,
                   successful_hosts, failed_hosts, processed, report, printed,
                   app_ret, shellVars, histVars, sent>>

\* mutant of Collect: a failed host is recorded in results but not appended
\* to failed_hosts.
Collect_DropFailed(t) ==
    /\ main_pc = "collect"
    /\ pc[t] = "done"
    /\ t \notin processed
    /\ results' = [results EXCEPT ![future[t][1]] =
                      [success |-> future[t][2], summary |-> future[t][3]]]
    /\ successful_hosts' = IF future[t][2]
                           THEN Append(successful_hosts, future[t][1])
                           ELSE successful_hosts
    /\ processed' = processed \cup {t}
    /\ UNCHANGED <<failed_hosts, main_pc, report, printed, app_ret, taskVars,
                   inputVars, auxVars, shellVars, histVars, sent>>

\* one iteration of `for future in as_completed(future_to_host)`
Collect(t) ==
    /\ main_pc = "collect"
    /\ pc[t] = "done"
    /\ t \notin processed
    /\ LET hostname == future[t][1]
           success == future[t][2]
           summary == future[t][3]
       IN  /\ results' = [results EXCEPT ![hostname] =
                             [success |-> success, summary |-> summary]]
           /\ IF success
              THEN /\ successful_hosts' = Append(successful_hosts, hostname)
                   /\ UNCHANGED failed_hosts
              ELSE /\ failed_hosts' = Append(failed_hosts, hostname)
                   /\ UNCHANGED successful_hosts
    /\ processed' = processed \cup {t}
    /\ UNCHANGED <<main_pc, report, printed, app_ret, taskVars, inputVars, auxVars, shellVars, histVars, sent>>

\* mutant of AllCollected: the loop ends at the first failed host
AllCollected_ShortCircuit == processed = Tasks \/ Len(failed_hosts) > 0

\* as_completed is exhausted once every future was yielded
AllCollected == processed = Tasks

\* the end of the with block, the printed summary, the returned dict, and
\* run_application's `return results['failed'] == 0`
Summary ==
    /\ main_pc = "collect"
    /\ AllCollected
    /\ report' = [total |-> Len(hosts),
                  successful |-> Len(successful_hosts),
                  failed |-> Len(failed_hosts),
                  successful_hosts |-> successful_hosts,
                  failed_hosts |-> failed_hosts,
                  results |-> results]
    /\ printed' = printed \cup {"summary"}
    /\ app_ret' = (Len(failed_hosts) = 0)
    /\ main_pc' = "done"
    /\ UNCHANGED <<results, successful_hosts, failed_hosts, processed,
                   taskVars, inputVars, auxVars, shellVars, histVars, sent>>

\* Ctrl+C while the main thread waits in as_completed: KeyboardInterrupt
\* leaves the loop; the with block's exit joins the pool (shutdown(wait=True)).
MainInterrupt ==
    /\ main_pc = "collect"
    /\ main_pc' = "shutdown"
    /\ UNCHANGED <<results, successful_hosts, failed_hosts, processed, report,
                   printed, app_ret, taskVars, inputVars, auxVars, shellVars, histVars, sent>>

\* mutant of Cancelled: the interrupt is swallowed and the summary printed
Cancelled_PrintsSummary ==
    /\ main_pc = "shutdown"
    /\ \A t \in Tasks : pc[t] = "done"
    /\ printed' = printed \cup {"cancelled", "summary"}
    /\ app_ret' = FALSE
    /\ main_pc' = "done"
    /\ UNCHANGED <<results, successful_hosts, failed_hosts, processed, report,
                   taskVars, inputVars, auxVars, shellVars, histVars, sent>>

\* the pool is joined; run_application's `except KeyboardInterrupt`
Cancelled ==
    /\ main_pc = "shutdown"
    /\ \A t \in Tasks : pc[t] = "done"
    /\ printed' = printed \cup {"cancelled"}
    /\ app_ret' = FALSE
    /\ main_pc' = "done"
    /\ UNCHANGED <<results, successful_hosts, failed_hosts, processed, report,
                   taskVars, inputVars, auxVars, shellVars, histVars, sent>>

\* --------------------------------------------------------- initial states
CommandLists == {[k \in 1..n |-> k] : n \in 1..MaxCmds}
\* one command goes to run_ssh_command, a list to run_multiple_ssh_commands
HostCommandLists == {<<1>>, <<1, 2>>}
HostLists(lo) == UNION {[1..n -> HostNames] : n \in lo..MaxHosts}

InitTasks ==
    /\ client = [t \in 1..MaxHosts |-> "none"]
    /\ cmd_i = [t \in 1..MaxHosts |-> 1]
    /\ overall_success = [t \in 1..MaxHosts |-> TRUE]
    /\ task_ret = [t \in 1..MaxHosts |-> FALSE]
    /\ connErr = [t \in 1..MaxHosts |-> "none"]
    /\ raised = [t \in 1..MaxHosts |-> FALSE]
    /\ connAttempts = [t \in 1..MaxHosts |-> 0]
    /\ transport = [t \in 1..MaxHosts |-> "none"]
    /\ future = [t \in 1..MaxHosts |-> NoFuture]

InitShell ==
    /\ sh_pc = "idle"
    /\ now = 0
    /\ last_data_time = 0
    /\ drain_start = 0
    /\ cmd_wait = 0
    /\ output = EmptyOutput
    /\ shell_open = 0
    /\ sent = [t \in 1..MaxHosts |-> <<>>]
    /\ shells_opened = 0
    /\ interrupts = 0
    /\ int_seen = FALSE
    /\ sent_at_int = 0
    /\ propagating = FALSE

InitMain ==
    /\ results = [h \in HostNames |-> NoResult]
    /\ successful_hosts = <<>>
    /\ failed_hosts = <<>>
    /\ processed = {}
    /\ report = NoReport
    /\ printed = {}
    /\ app_ret = FALSE

\* no method of a separate runner object and no static method is being
\* exercised
InitAux ==
    /\ conn_args = NoCall
    /\ api_ret = NoResult
    /\ channels = 0
    /\ call = NoCall
    /\ result = NoResult

\* run_application with two or more hosts, just before
\* run_ssh_commands_multi_host creates the pool
InitMulti ==
    /\ hosts \in HostLists(2)
    /\ hosts[1] = "h1"     \* host names are interchangeable
    /\ commands \in CommandLists
    /\ use_shell = FALSE
    /\ max_threads \in 1..Len(hosts)
    /\ main_pc = "submit"
    /\ pc = [t \in 1..MaxHosts |-> "unsubmitted"]
    /\ log = [t \in 1..MaxHosts |-> <<>>]
    /\ sink_ok = [t \in 1..MaxHosts |-> FALSE]
    /\ InitTasks
    /\ InitMain
    /\ InitShell
    /\ InitAux

NextMulti ==
    \/ SubmitAll
    \/ \E t \in Tasks : StartTask(t)
    \/ \E t \in Tasks : Connect(t)
    \/ \E t \in Tasks : ExecDirect(t)
    \/ \E t \in Tasks : Finally(t)
    \/ \E t \in Tasks : Collect(t)
    \/ Summary
    \/ MainInterrupt
    \/ Cancelled

SpecMulti == InitMulti /\ [][NextMulti]_vars

\* The pool's worker threads and the main thread are scheduled by the OS:
\* a step that stays possible is eventually taken.  Ctrl+C is the user's.
TaskStep ==
    \E t \in Tasks : StartTask(t) \/ Connect(t) \/ ExecDirect(t) \/ Finally(t)
MainStep == SubmitAll \/ (\E t \in Tasks : Collect(t)) \/ Summary \/ Cancelled
FairMulti == SpecMulti /\ WF_vars(TaskStep) /\ WF_vars(MainStep)

\* ======================================================= multi-host claims
Count(seq, h) == Cardinality({k \in 1..Len(seq) : seq[k] = h})

\* C1: the report returned by run_ssh_commands_multi_host satisfies
\* total = successful + failed and
\* len(successful_hosts) + len(failed_hosts) = total, whatever the per-host
\* outcomes (success, failure, exception inside the task).
C1_ReportCounts ==
    report # NoReport =>
        /\ report.total = report.successful + report.failed
        /\ Len(report.successful_hosts) + Len(report.failed_hosts) = report.total
        /\ report.total = Len(hosts)
C1_Witness ==
    /\ report # NoReport
    /\ \E t \in Tasks : raised[t]
    /\ \E t \in Tasks : ~raised[t] /\ task_ret[t] = FALSE
    /\ report.failed = 2

\* C2: an exception raised inside one host's task becomes a failed entry
\* (success = false) for that host only; every sibling task still runs to
\* completion and is reported with the outcome of its own run.
C2_ExceptionIsolated ==
    report # NoReport =>
        /\ \A t \in Tasks :
              /\ pc[t] = "done"
              /\ raised[t] => (future[t][2] = FALSE /\ future[t][3].kind = "Error")
              /\ ~raised[t] => future[t][2] = task_ret[t]
        /\ \A h \in HostNames :
              /\ Count(report.failed_hosts, h) =
                    Cardinality({t \in Tasks : hosts[t] = h /\ future[t][2] = FALSE})
              /\ Count(report.successful_hosts, h) =
                    Cardinality({t \in Tasks : hosts[t] = h /\ future[t][2] = TRUE})
C2_Witness ==
    /\ report # NoReport
    /\ \E t, u \in Tasks :
          /\ raised[t] /\ task_ret[t] = TRUE
          /\ ~raised[u] /\ report.results[hosts[u]].success = TRUE

\* C3: the report is produced only after every submitted host task has
\* completed: none is pending or running, and none was skipped (every task
\* made its connection attempt) because an earlier one failed.
C3_ReportAfterAllTasks ==
    report # NoReport =>
        \A t \in Tasks : pc[t] = "done" /\ connAttempts[t] = 1 /\ t \in processed
C3_Witness ==
    /\ report # NoReport
    /\ max_threads = 1
    /\ Len(report.failed_hosts) >= 1
    /\ Len(report.successful_hosts) >= 1

\* C12: there is no retry.  Every entry of the host list has exactly one
\* task (none before the submission, none for anything else), and a task
\* makes at most one transport handshake: none before it reaches connect,
\* exactly one once it is past connect, whatever the outcome was.
C12_NoRetry ==
    /\ \A t \in 1..MaxHosts : t \notin Tasks => pc[t] = "unsubmitted"
    /\ main_pc # "submit" => \A t \in Tasks : pc[t] # "unsubmitted"
    /\ \A t \in Tasks :
          /\ connAttempts[t] <= 1
          /\ pc[t] \in {"unsubmitted", "pending", "connect"} => connAttempts[t] = 0
          /\ pc[t] \in {"exec", "finally", "done"} => connAttempts[t] = 1
C12_Witness ==
    /\ report # NoReport
    /\ \A t \in Tasks : connErr[t] # "none" /\ connAttempts[t] = 1
    /\ report.failed = Len(hosts)

\* C16: the results map and the two host lists change only in a step of the
\* main thread's as_completed loop, which handles one finished task, leaves
\* every task's own state alone, stores that task's outcome under its host
\* name and appends the host to exactly one of the two lists; no step of a
\* host task changes them.
C16_SingleAggregationPoint ==
    [][(<<results, successful_hosts, failed_hosts>>'
            # <<results, successful_hosts, failed_hosts>>) =>
          /\ main_pc = "collect"
          /\ UNCHANGED taskVars
          /\ \E t \in Tasks :
                /\ pc[t] = "done"
                /\ t \notin processed
                /\ processed' = processed \cup {t}
                /\ results'[hosts[t]] =
                      [success |-> future[t][2], summary |-> future[t][3]]
          /\ Len(successful_hosts') + Len(failed_hosts')
                = Len(successful_hosts) + Len(failed_hosts) + 1]_vars
C16_Witness ==
    /\ max_threads = 2
    /\ processed # {}
    /\ \E t \in Tasks : pc[t] = "exec"
    /\ Len(successful_hosts) + Len(failed_hosts) = 1

\* the host names that have an entry in the per-host map of the report
Entries(r) == {h \in HostNames : r.results[h] # NoResult}
\* the elements of a list
Range(seq) == {seq[i] : i \in 1..Len(seq)}

\* C17 (as claimed): the report has one per-host entry for each submitted
\* host, and no host name is both among the successful and among the failed
\* hosts.
C17_OneEntryPerHost ==
    report # NoReport =>
        /\ Cardinality(Entries(report)) = report.total
        /\ Range(report.successful_hosts) \cap Range(report.failed_hosts) = {}

\* C7 (as claimed): every run that completes has printed the summary of
\* successful and failed hosts, also when the user interrupted it.
C7_SummaryAlways == main_pc = "done" => "summary" \in printed

\* C7 (amended): every multi-host run eventually completes with every host
\* task finished; it prints the summary, whose two host lists cover the host
\* list, exactly when the user did not interrupt it; an interrupted run ends
\* with the cancellation message, no summary, and a failure result.
C7_CompletesSummaryUnlessCancelled ==
    /\ <>(main_pc = "done")
    /\ [](main_pc = "done" =>
            /\ \A t \in Tasks : pc[t] = "done"
            /\ IF "cancelled" \in printed
               THEN "summary" \notin printed /\ report = NoReport /\ app_ret = FALSE
               ELSE /\ "summary" \in printed
                    /\ report # NoReport
                    /\ Len(report.successful_hosts) + Len(report.failed_hosts)
                          = Len(hosts)
                    /\ app_ret = (report.failed = 0))
C7_Witness ==
    /\ main_pc = "done"
    /\ "cancelled" \in printed
    /\ \E t \in Tasks : task_ret[t] = FALSE
    /\ \E t \in Tasks : task_ret[t] = TRUE

\* the summary names the class of the connect failure
SummaryHasFailureClass(summary, class) ==
    summary.kind = "Error" /\ summary.detail = class

\* C10 (as claimed): a host whose connection attempt failed is reported
\* failed with a summary that carries the failure class; a host that timed
\* out on connect has a connection-timeout indicator in its summary.
C10_FailureClassInReport ==
    report # NoReport =>
        \A t \in Tasks :
            connErr[t] # "none" =>
                /\ future[t][2] = FALSE
                /\ SummaryHasFailureClass(future[t][3], connErr[t])

\* ============================================================ single host
\* run_application with one host: run_ssh_command or
\* run_multiple_ssh_commands is called on the main thread; the state is the
\* one in which the log header was written and connect is about to be called
InitHost ==
    /\ hosts = <<"h1">>
    /\ commands \in HostCommandLists
    /\ use_shell \in BOOLEAN
    /\ max_threads = 1
    /\ main_pc = "single"
    /\ pc = [t \in 1..MaxHosts |-> IF t = 1 THEN "connect" ELSE "unsubmitted"]
    /\ \E ok \in BOOLEAN :
         /\ sink_ok = [t \in 1..MaxHosts |-> ok]
         /\ log = [t \in 1..MaxHosts |->
                     IF t = 1 THEN WriteToHostLog(<<>>, ok, <<<<"header">>>>)
                     ELSE <<>>]
    /\ InitTasks
    /\ InitMain
    /\ InitShell
    /\ InitAux

NextHost ==
    \/ \E t \in Tasks : Connect(t)
    \/ \E t \in Tasks : ExecDirect(t)
    \/ \E t \in Tasks : ShellOpen(t)
    \/ \E t \in Tasks : PromptWait(t)
    \/ \E t \in Tasks : Send(t)
    \/ \E t \in Tasks : CmdWait(t)
    \/ \E t \in Tasks : CollectPoll(t)
    \/ \E t \in Tasks : DrainPoll(t)
    \/ \E t \in Tasks : Cleanup(t)
    \/ \E t \in Tasks : CloseReturn(t)
    \/ \E t \in Tasks : InterruptCollect(t)
    \/ \E t \in Tasks : InterruptCleanup(t)
    \/ \E t \in Tasks : InterruptCommand(t)
    \/ \E t \in Tasks : InterruptConnect(t)
    \/ \E t \in Tasks : FinallyHost(t)

SpecHost == InitHost /\ [][NextHost]_vars

\* ====================================================== single-host claims
\* C4: while the shell-mode collection loop or its overflow drain is
\* running, the time elapsed since the start of the command is at most
\* max_total_wait, for every pattern of data readiness of the channel
\* (never ready, always ready, intermittent).
C4_CollectionWithinCeiling ==
    sh_pc \in {"collect", "drain"} => now <= MaxTotalWait
C4_Witness ==
    /\ sh_pc = "drain"
    /\ drain_start = HardTimeout
    /\ now = MaxTotalWait

\* C5 (as claimed): the retained output never exceeds max_output_size.
C5_BufferWithinMax == output.data <= MaxOutputSize

\* C5 (amended): the chunk is appended before the size is tested, so the
\* retained device output exceeds max_output_size by at most one received
\* chunk; once it does, the truncation marker is in the buffer and the
\* drain retains nothing more.
C5_BufferWithinMaxPlusChunk ==
    /\ output.data <= MaxOutputSize + RecvMax
    /\ output.data > MaxOutputSize => "truncated" \in output.markers
    /\ sh_pc = "drain" => output.data > MaxOutputSize
C5_Witness ==
    /\ sh_pc = "drain"
    /\ now > drain_start
    /\ output.data = MaxOutputSize + RecvMax

\* C6 (as claimed): once a Ctrl+C arrived while the host's commands were
\* run, no further command is sent to the host and the run reports the host
\* as failed.
C6_InterruptStopsHost ==
    int_seen =>
        /\ Len(sent[1]) = sent_at_int
        /\ main_pc = "done" => app_ret = FALSE

\* C8 (as claimed): a shell-mode session that sent its commands has opened
\* exactly one shell channel.
C8_OneChannelPerSession ==
    (use_shell /\ pc[1] = "done" /\ Len(sent[1]) >= 1) => shells_opened = 1

\* C8 (amended): every shell-mode command opens a channel of its own:
\* invoke_shell is called once per command of the list, a command is sent
\* only on the channel opened for it, so the channels opened are at least
\* the commands sent and at most the commands started; no channel is open
\* between two commands unless closing it or an early return left it open.
C8_ChannelPerCommand ==
    use_shell =>
        /\ Len(sent[1]) <= shells_opened
        /\ shells_opened <= cmd_i[1]
        /\ shell_open <= shells_opened
        /\ (pc[1] = "done" /\ Len(sent[1]) = Len(commands))
              => shells_opened = Len(commands)
C8_Witness ==
    /\ use_shell
    /\ pc[1] = "done"
    /\ Len(sent[1]) = 2
    /\ shells_opened = 2
    /\ shell_open = 0

\* the result line of command k is in the host's log
ResultLogged(l, k) ==
    \E i \in 1..Len(l) : l[i] \in {<<"executed successfully", k>>, <<"failed", k>>}

\* C9: the commands sent to a host are sent in list order, each at most
\* once (a command whose channel could not be opened is not sent); the
\* command whose output is being harvested is the last one sent; and when a
\* later command is sent, the execution of every earlier command has ended
\* and (the log file being writable) its result is in the host's log, after
\* its output if it produced any.
C9_InOrderNoOverlap ==
    /\ \A i, j \in 1..Len(sent[1]) : i < j => sent[1][i] < sent[1][j]
    /\ \A i \in 1..Len(sent[1]) : commands[sent[1][i]] = sent[1][i]
                                   /\ sent[1][i] <= cmd_i[1]
    /\ sh_pc \in {"cmd_wait", "collect", "drain", "cleanup", "close"}
          => sent[1][Len(sent[1])] = cmd_i[1]
    /\ sink_ok[1] => \A k \in 1..(cmd_i[1] - 1) : ResultLogged(log[1], k)
    /\ \A i, j \in 1..Len(log[1]) :
          (log[1][i][1] = "OUTPUT" /\ log[1][j][1] \in {"executed successfully", "failed"}
             /\ Len(log[1][i]) = 2 /\ Len(log[1][j]) = 2
             /\ log[1][i][2] < log[1][j][2]) => i < j
C9_Witness ==
    /\ use_shell
    /\ sink_ok[1]
    /\ sh_pc = "collect"
    /\ sent[1] = <<1, 2>>
    /\ \E i \in 1..Len(log[1]) : log[1][i] = <<"OUTPUT", 1>>

\* ==================================================== one runner object
\* An EnhancedSSHRunner object driven through connect, execute_command and
\* disconnect in any order (connect at most once, as every caller does).
MinPort == 1
MaxPort == 65535
MaxCalls == 4
Ports == {MinPort - 1, 22, MaxPort, MaxPort + 1}
ConnectArgs ==
    [hostname_ok : BOOLEAN, username_ok : BOOLEAN, port : Ports,
     password : {"", "secret"}]

validate_port(port) == MinPort <= port /\ port <= MaxPort

\* mutant of Validation: the password test is missing
Validation_NoPassword(args) ==
    IF ~args.hostname_ok THEN "invalid hostname"
    ELSE IF ~args.username_ok THEN "invalid username"
    ELSE IF ~validate_port(args.port) THEN "invalid port"
    ELSE "valid"

\* the four tests at the head of connect, in their order
Validation(args) ==
    IF ~args.hostname_ok THEN "invalid hostname"
    ELSE IF ~args.username_ok THEN "invalid username"
    ELSE IF ~validate_port(args.port) THEN "invalid port"
    ELSE IF args.password = "" THEN "empty password"
    ELSE "valid"

\* mutant of HoldsClient: only a connected client counts
HoldsClient_ConnectedOnly(c) == c = "connected"

\* `if self.client`: any SSHClient object is true, None is false
HoldsClient(c) == c # "none"

\* mutant of ExecuteUnconnected: the `if not self.client` guard is missing
ExecuteUnconnected_NoGuard(c, shell) ==
    [ok |-> FALSE,
     err |-> IF shell THEN "Shell execution error" ELSE "Execution error",
     opened |-> 0]

\* execute_command on a runner whose client is not connected: without a
\* client it returns at once; with the client object a failed connect left
\* behind, exec_command / invoke_shell raise before a channel exists and the
\* exception handlers build the result
ExecuteUnconnected(c, shell) ==
    IF ~HoldsClient(c)
    THEN [ok |-> FALSE, err |-> "No active SSH connection", opened |-> 0]
    ELSE [ok |-> FALSE,
          err |-> IF shell THEN "Shell execution error" ELSE "Execution error",
          opened |-> 0]

\* the record of a method call: what it returned, and the state it found
ApiRet(fn, ok, err, exc) ==
    [seq |-> api_ret.seq + 1, fn |-> fn, ok |-> ok, err |-> err,
     raised |-> exc, client_before |-> client[1],
     transport_before |-> transport[1], channels_before |-> channels]

sessFrame == <<pc, cmd_i, overall_success, task_ret, raised, future, log,
               sink_ok, inputVars, mainVars, shellVars, histVars, sent, call,
               result>>

SessConnect ==
    /\ main_pc = "api"
    /\ api_ret.seq < MaxCalls
    /\ conn_args = NoCall
    /\ \E args \in ConnectArgs :
         /\ conn_args' = args
         /\ IF Validation(args) # "valid"
            THEN /\ api_ret' = ApiRet("connect", FALSE, Validation(args), FALSE)
                 /\ connErr' = [connErr EXCEPT ![1] = Validation(args)]
                 /\ UNCHANGED <<client, transport, connAttempts>>
            ELSE \E o \in ConnectOutcomes :
                   /\ connAttempts' = [connAttempts EXCEPT ![1] = @ + 1]
                   /\ client' = [client EXCEPT ![1] =
                                    IF o = "ok" THEN "connected" ELSE "created"]
                   /\ transport' = [transport EXCEPT ![1] = TransportAfterConnect(o)]
                   /\ connErr' = [connErr EXCEPT ![1] = IF o = "ok" THEN @ ELSE o]
                   /\ api_ret' = ApiRet("connect", o = "ok", o, FALSE)
    /\ UNCHANGED <<channels, sessFrame>>

SessExecute ==
    /\ main_pc = "api"
    /\ api_ret.seq < MaxCalls
    /\ \E shell \in BOOLEAN :
         IF client[1] # "connected"
         THEN LET r == ExecuteUnconnected(client[1], shell)
              IN  /\ api_ret' = ApiRet("execute_command", r.ok, r.err, FALSE)
                  /\ channels' = channels + r.opened
         ELSE \E o \in DirectOutcomes, opened \in {0, 1} :
                /\ o # "raise" => opened = 1
                /\ api_ret' = ApiRet("execute_command", DirectResult(o).success,
                                     IF o = "raise" THEN "Execution error" ELSE "",
                                     FALSE)
                /\ channels' = channels + opened
    /\ UNCHANGED <<client, transport, connAttempts, connErr, conn_args,
                   sessFrame>>

SessDisconnect ==
    /\ main_pc = "api"
    /\ api_ret.seq < MaxCalls
    /\ IF ~HoldsClient(client[1])
       THEN /\ api_ret' = ApiRet("disconnect", TRUE, "", FALSE)
            /\ UNCHANGED <<client, transport>>
       ELSE \E closeOk \in CloseOutcomes(client[1]) :
              IF closeOk
              THEN /\ client' = [client EXCEPT ![1] = "none"]
                   /\ transport' = [transport EXCEPT ![1] = TransportAfterClose(@)]
                   /\ api_ret' = ApiRet("disconnect", TRUE, "", FALSE)
              ELSE /\ api_ret' = ApiRet("disconnect", FALSE, "close raised", TRUE)
                   /\ UNCHANGED <<client, transport>>
    /\ UNCHANGED <<connAttempts, connErr, conn_args, channels, sessFrame>>

\* a runner just constructed: __init__ set client = None
InitSession ==
    /\ hosts = <<"h1">>
    /\ commands = <<1>>
    /\ use_shell = FALSE
    /\ max_threads = 1
    /\ main_pc = "api"
    /\ pc = [t \in 1..MaxHosts |-> "unsubmitted"]
    /\ log = [t \in 1..MaxHosts |-> <<>>]
    /\ sink_ok = [t \in 1..MaxHosts |-> FALSE]
    /\ InitTasks
    /\ InitMain
    /\ InitShell
    /\ conn_args = NoCall
    /\ api_ret = [seq |-> 0, fn |-> "__init__", ok |-> TRUE, err |-> "",
                  raised |-> FALSE, client_before |-> "none",
                  transport_before |-> "none", channels_before |-> 0]
    /\ channels = 0
    /\ call = NoCall
    /\ result = NoResult

NextSession == SessConnect \/ SessExecute \/ SessDisconnect

SpecSession == InitSession /\ [][NextSession]_vars

\* C11: a connect whose hostname, username, port or password is invalid
\* returns False, has attempted no transport connection, and leaves the
\* runner without a client.
C11_InvalidArgsNoIO ==
    (/\ conn_args # NoCall
     /\ \/ ~conn_args.hostname_ok
        \/ ~conn_args.username_ok
        \/ conn_args.port \notin MinPort..MaxPort
        \/ conn_args.password = "") =>
        /\ connAttempts[1] = 0
        /\ client[1] = "none"
        /\ transport[1] = "none"
        /\ api_ret.fn = "connect" => ~api_ret.ok
C11_Witness ==
    /\ api_ret.fn = "connect"
    /\ ~api_ret.ok
    /\ conn_args.hostname_ok
    /\ conn_args.username_ok
    /\ conn_args.port = 22
    /\ conn_args.password = ""

C14_NoActiveConnection ==
    (api_ret.fn = "execute_command" /\ api_ret.client_before # "connected") =>
        /\ ~api_ret.ok
        /\ api_ret.err = "No active SSH connection"
        /\ channels = api_ret.channels_before

\* C14 (amended): execute_command on a runner that is not connected returns
\* failure and opens no channel; the error is 'No active SSH connection'
\* exactly when the runner holds no client (never connected, connect
\* rejected by validation, disconnected); after a connect that failed in the
\* handshake the client object is still set and the error is the execution
\* error built from the exception the transport raised.
C14_UnconnectedExecuteFails ==
    (api_ret.fn = "execute_command" /\ api_ret.client_before # "connected") =>
        /\ ~api_ret.ok
        /\ channels = api_ret.channels_before
        /\ api_ret.err = "No active SSH connection"
              <=> api_ret.client_before = "none"
C14_Witness ==
    /\ api_ret.fn = "execute_command"
    /\ api_ret.client_before = "created"
    /\ api_ret.err = "Execution error"
    /\ channels = 0

\* ===================================================== static methods
\* One call of a static method: the arguments are drawn in the initial
\* state, the action applies the method.
FixedCap == 50
MaxCount == 52

\* nothing else is running while a static method is exercised
InitIdle ==
    /\ hosts = <<"h1">>
    /\ commands = <<1>>
    /\ use_shell = FALSE
    /\ max_threads = 1
    /\ main_pc = "static"
    /\ pc = [t \in 1..MaxHosts |-> "unsubmitted"]
    /\ log = [t \in 1..MaxHosts |-> <<>>]
    /\ sink_ok = [t \in 1..MaxHosts |-> FALSE]
    /\ InitTasks
    /\ InitMain
    /\ InitShell
    /\ conn_args = NoCall
    /\ api_ret = NoResult
    /\ channels = 0

staticFrame == <<inputVars, taskVars, mainVars, shellVars, histVars, sent,
                 conn_args, api_ret, channels, call>>

Min(a, b) == IF a <= b THEN a ELSE b
SetMin(S) == CHOOSE x \in S : \A y \in S : x <= y

\* a thread count argument: an int, or something that is not one (None)
Unspecified == [int |-> FALSE, v |-> 0]
IntArg(n) == [int |-> TRUE, v |-> n]

\* mutant of validate_thread_count: the host count is not in the final min
validate_thread_count_NoHostCap(thread_count, max_hosts, cpu_count) ==
    IF ~thread_count.int \/ thread_count.v <= 0
    THEN Min(max_hosts, cpu_count)
    ELSE Min(thread_count.v, Min(FixedCap, max_hosts * 2))

validate_thread_count(thread_count, max_hosts, cpu_count) ==
    IF ~thread_count.int \/ thread_count.v <= 0
    THEN Min(max_hosts, cpu_count)
    ELSE LET max_reasonable_threads == Min(FixedCap, max_hosts * 2)
         IN  Min(Min(thread_count.v, max_reasonable_threads), max_hosts)

\* run_application: requested_threads = args.max_threads or default_threads
PoolSize(arg, n_hosts, cpu_count) ==
    LET requested_threads ==
            IF arg.int /\ arg.v # 0 THEN arg ELSE IntArg(cpu_count)
    IN  validate_thread_count(requested_threads, n_hosts, cpu_count)

\* validate_thread_count called directly with any argument;
\* run_application with --max-threads absent or accepted by the parser
ThreadCalls ==
    [fn : {"validate_thread_count"},
     thread_count : {IntArg(n) : n \in (-1..MaxCount) \cup {1000}} \cup {Unspecified},
     max_hosts : 1..MaxCount, cpu_count : 1..MaxCount]
    \cup
    [fn : {"run_application"},
     thread_count : {IntArg(n) : n \in 1..MaxCount} \cup {Unspecified},
     max_hosts : 2..MaxCount, cpu_count : 1..MaxCount]

InitThreads ==
    /\ InitIdle
    /\ call \in ThreadCalls
    /\ result = NoResult

ValidateThreadCount ==
    /\ main_pc = "static"
    /\ call # NoCall
    /\ call.fn = "validate_thread_count"
    /\ result = NoResult
    /\ result' = [value |-> validate_thread_count(call.thread_count,
                                                  call.max_hosts, call.cpu_count)]
    /\ UNCHANGED staticFrame

RunApplicationPoolSize ==
    /\ main_pc = "static"
    /\ call # NoCall
    /\ call.fn = "run_application"
    /\ result = NoResult
    /\ result' = [value |-> PoolSize(call.thread_count, call.max_hosts,
                                     call.cpu_count)]
    /\ UNCHANGED staticFrame

NextThreads == ValidateThreadCount \/ RunApplicationPoolSize

SpecThreads == InitThreads /\ [][NextThreads]_vars

\* C15 (as claimed): for a request r >= 1 the pool size is
\* min(r, 2h, 50, h); for an unspecified or non-positive request it is
\* min(h, cpu_count).
C15_PoolSizeAsClaimed ==
    result # NoResult =>
        IF call.thread_count.int /\ call.thread_count.v >= 1
        THEN result.value = SetMin({call.thread_count.v, 2 * call.max_hosts,
                                    FixedCap, call.max_hosts})
        ELSE result.value = SetMin({call.max_hosts, call.cpu_count})

\* C15 (amended): for a request r >= 1 the pool size is min(r, 2h, 50, h),
\* so between 1 and min(h, 50).  validate_thread_count called with a
\* non-positive or non-integer count returns min(h, cpu_count), which may
\* exceed 50.  When --max-threads is absent run_application substitutes
\* cpu_count for the request, so the pool size is min(cpu_count, 50, h).
C15_PoolSize ==
    result # NoResult =>
        /\ (call.thread_count.int /\ call.thread_count.v >= 1) =>
              /\ result.value = SetMin({call.thread_count.v, 2 * call.max_hosts,
                                        FixedCap, call.max_hosts})
              /\ 1 <= result.value
              /\ result.value <= call.max_hosts
              /\ result.value <= FixedCap
        /\ (call.fn = "validate_thread_count"
            /\ ~(call.thread_count.int /\ call.thread_count.v >= 1)) =>
              result.value = SetMin({call.max_hosts, call.cpu_count})
        /\ (call.fn = "run_application" /\ ~call.thread_count.int) =>
              result.value = SetMin({call.cpu_count, FixedCap, call.max_hosts})
C15_Witness ==
    /\ result # NoResult
    /\ call.fn = "run_application"
    /\ call.thread_count = Unspecified
    /\ call.max_hosts > FixedCap
    /\ call.cpu_count > FixedCap
    /\ result.value = FixedCap

\* ------------------------------------------------ host names and log paths
\* Strings are sequences of characters over small alphabets.  The length
\* limits of the code are scaled down so that strings beyond them are within
\* reach: LabelMax stands for 63, FilenameMax for 100, HostnameMax for 253.
MaxLen == 2
LabelMax == 3
FilenameMax == 4
HostnameMax == 5
\* host list entries: a letter, the two punctuation characters a host name
\* may hold, the underscore (a word character that no host name holds) and
\* one character outside [\w\-_.]
Alphabet == {"a", ".", "-", "_", "/"}
Strings == UNION {[1..n -> Alphabet] : n \in 0..MaxLen}

\* [a-zA-Z0-9] among the characters of the alphabets ("a" is also a
\* hexadecimal digit)
Letters == {"a", "c", "o", "n"}
\* the characters of the alphabets that \w does not match
NonWord == {".", "-", "/", ":", " ", "\n"}
IsAlnum(c) == c \in Letters
IsWord(c) == c \notin NonWord

RECURSIVE RStrip(_, _)
RStrip(str, chars) ==
    IF str # <<>> /\ str[Len(str)] \in chars
    THEN RStrip(SubSeq(str, 1, Len(str) - 1), chars)
    ELSE str

RECURSIVE LStrip(_, _)
LStrip(str, chars) ==
    IF str # <<>> /\ str[1] \in chars THEN LStrip(Tail(str), chars) ELSE str

\* str.split('.')
RECURSIVE SplitDots(_)
SplitDots(str) ==
    IF \A i \in 1..Len(str) : str[i] # "."
    THEN <<str>>
    ELSE LET k == CHOOSE i \in 1..Len(str) :
                      str[i] = "." /\ \A j \in 1..(i - 1) : str[j] # "."
         IN  <<SubSeq(str, 1, k - 1)>> \o SplitDots(SubSeq(str, k + 1, Len(str)))

\* [a-zA-Z0-9]([a-zA-Z0-9\-]{0,61}[a-zA-Z0-9])?
IsLabel(l) ==
    /\ Len(l) >= 1
    /\ Len(l) <= LabelMax
    /\ IsAlnum(l[1])
    /\ IsAlnum(l[Len(l)])
    /\ \A i \in 1..Len(l) : IsAlnum(l[i]) \/ l[i] = "-"

\* hexadecimal digits among the characters of the alphabets
HexDigits == {"a", "c"}
GroupLenMax == 4
GroupCount == 8

\* a ':'-separated list of groups of 1 to 4 hexadecimal digits
HexGroups(part) ==
    LET groups == SplitDots([i \in 1..Len(part) |->
                                IF part[i] = ":" THEN "." ELSE part[i]])
    IN  IF \A i \in 1..Len(groups) :
              /\ Len(groups[i]) \in 1..GroupLenMax
              /\ \A j \in 1..Len(groups[i]) : groups[i][j] \in HexDigits
        THEN Len(groups) ELSE 0

\* ipaddress.ip_address accepts the string as an IPv6 address (without zone
\* or embedded IPv4 address): eight groups, or fewer around one "::".  An
\* IPv4 literal is also a sequence of labels, which the pattern accepts.
IsIPv6(str) ==
    LET gaps == {i \in 1..(Len(str) - 1) : str[i] = ":" /\ str[i + 1] = ":"}
    IN  /\ \A i \in 1..Len(str) : str[i] \in HexDigits \cup {":"}
        /\ IF gaps = {}
           THEN HexGroups(str) = GroupCount
           ELSE /\ Cardinality(gaps) = 1
                /\ LET k == CHOOSE i \in gaps : TRUE
                       left == SubSeq(str, 1, k - 1)
                       right == SubSeq(str, k + 2, Len(str))
                       nl == IF left = <<>> THEN 0 ELSE HexGroups(left)
                       nr == IF right = <<>> THEN 0 ELSE HexGroups(right)
                   IN  /\ left # <<>> => nl > 0
                       /\ right # <<>> => nr > 0
                       /\ nl + nr < GroupCount

\* the sequence of labels of hostname_pattern
IsLabelSequence(str) ==
    LET labels == SplitDots(str)
    IN  \A i \in 1..Len(labels) : IsLabel(labels[i])

\* hostname_pattern.match: '$' matches at the end of the string and also
\* just before a newline that ends it
PatternMatches(str) ==
    \/ IsLabelSequence(str)
    \/ /\ str # <<>>
       /\ str[Len(str)] = "\n"
       /\ IsLabelSequence(SubSeq(str, 1, Len(str) - 1))

validate_hostname(hostname) ==
    /\ hostname # <<>>
    /\ Len(hostname) <= HostnameMax
    /\ \/ IsIPv6(hostname)
       \/ PatternMatches(RStrip(hostname, {"."}))

\* the names sanitize_filename substitutes
Unknown == <<"unknown">>
SanitizedHost == <<"sanitized_host">>

\* reserved_names, as far as the alphabets can spell them (the test is made
\* on sanitized.upper())
ReservedNames == {<<"c", "o", "n">>}

\* sanitize_filename; "unknown", "sanitized_host" and the prefix "host_" are
\* single word tokens, shorter than the length limit as in the code
sanitize_filename(filename) ==
    IF filename = <<>> THEN Unknown
    ELSE LET replaced == [i \in 1..Len(filename) |->
                             IF IsWord(filename[i]) \/ filename[i] \in {"-", "_", "."}
                             THEN filename[i] ELSE "_"]
             stripped == LStrip(RStrip(replaced, {".", "-"}), {".", "-"})
             sanitized == IF stripped = <<>> THEN SanitizedHost ELSE stripped
             limited == IF Len(sanitized) > FilenameMax
                        THEN SubSeq(sanitized, 1, FilenameMax)
                        ELSE sanitized
         IN  IF limited \in ReservedNames
             THEN <<"host_">> \o limited
             ELSE limited

\* the loop of parse_host_list: the valid entries, in order
RECURSIVE parse_host_list(_)
parse_host_list(entries) ==
    IF entries = <<>> THEN <<>>
    ELSE (IF validate_hostname(Head(entries)) THEN <<Head(entries)>> ELSE <<>>)
         \o parse_host_list(Tail(entries))

\* host_log_file of a task that started at second `timestamp`
HostLogFile(hostname, timestamp, dir_ok) ==
    [log_dir |-> IF dir_ok THEN "per-host-logs" ELSE ".",
     name |-> <<"ssh_output">>
              \o (IF dir_ok THEN <<>> ELSE <<"fallback">>)
              \o sanitize_filename(hostname),
     timestamp |-> timestamp]

\* two entries of the host list, and for the task of each the second in
\* which it starts and whether the log directory could be created
LogPathCalls ==
    [fn : {"log_path"}, entries : [1..2 -> Strings \ {<<>>}],
     timestamp : [1..2 -> {0, 1}], dir_ok : [1..2 -> BOOLEAN]]

InitLogPath ==
    /\ InitIdle
    /\ call \in LogPathCalls
    /\ result = NoResult

ParseHostList ==
    /\ main_pc = "static"
    /\ call # NoCall
    /\ call.fn = "log_path"
    /\ result = NoResult
    /\ result' = [parsed |-> parse_host_list(call.entries), files |-> <<>>]
    /\ UNCHANGED staticFrame

\* the next host task computes its log file
TaskLogFile ==
    /\ main_pc = "static"
    /\ call # NoCall
    /\ call.fn = "log_path"
    /\ result # NoResult
    /\ Len(result.files) < Len(result.parsed)
    /\ LET k == Len(result.files) + 1
           entry == CHOOSE i \in 1..2 :
                       /\ validate_hostname(call.entries[i])
                       /\ Cardinality({j \in 1..i : validate_hostname(call.entries[j])}) = k
       IN  result' = [result EXCEPT !.files =
                         Append(@, HostLogFile(result.parsed[k],
                                               call.timestamp[entry],
                                               call.dir_ok[entry]))]
    /\ UNCHANGED staticFrame

NextLogPath == ParseHostList \/ TaskLogFile

SpecLogPath == InitLogPath /\ [][NextLogPath]_vars

\* C18 (as claimed): the tasks of two different validated hosts never get
\* the same log file.
C18_DistinctHostsDistinctFiles ==
    (result # NoResult /\ Len(result.files) = 2
        /\ result.parsed[1] # result.parsed[2])
    => result.files[1] # result.files[2]

\* ------------------------------------- post-processing of a shell command
MaxLines == 3
CollectedOutputs == UNION {[1..n -> LineKinds] : n \in 0..MaxLines}

InitJudge ==
    /\ InitIdle
    /\ call \in [fn : {"judge"}, lines : CollectedOutputs]
    /\ result = NoResult

\* lines 824-964 of _execute_with_shell applied to the collected output
CleanAndJudge ==
    /\ main_pc = "static"
    /\ call # NoCall
    /\ call.fn = "judge"
    /\ result = NoResult
    /\ LET cleaned_lines == CleanLines(call.lines, FALSE)
       IN  result' = [success |-> SuccessDetermination(cleaned_lines),
                      cleaned |-> cleaned_lines]
    /\ UNCHANGED staticFrame

NextJudge == CleanAndJudge

SpecJudge == InitJudge /\ [][NextJudge]_vars

\* C19 (as claimed): a shell-mode command is judged successful exactly when
\* its cleaned output is non-empty and holds no genuine error line.
C19_SuccessIffNoError ==
    (result # NoResult /\ call # NoCall /\ call.fn = "judge")
    => (result.success =
           (/\ result.cleaned # <<>>
            /\ \A i \in 1..Len(result.cleaned) : result.cleaned[i] # "error"))

\* ----------------------------------------------- echo followed by silence
\* the collection of a single command ended without a marker (by silence)
\* and only lines that cleaning removes were received
EchoOnlyCollected ==
    /\ use_shell
    /\ Len(commands) = 1
    /\ sh_pc = "close"
    /\ output.data > 0
    /\ ~output.keep
    /\ output.markers = {}

C21_InterruptKeepsOutput ==
    [][/\ (sh_pc \in {"collect", "drain"} /\ interrupts' # interrupts)
          => /\ sh_pc' = "cleanup"
             /\ output'.data = output.data
             /\ output'.keep = output.keep
             /\ output'.err = output.err
             /\ output'.markers = output.markers \cup {"interrupted"}
       /\ (sh_pc = "cleanup" /\ "interrupted" \in output.markers)
          => (sh_pc' = "close" /\ output' = output)
       /\ (sh_pc = "close" /\ "interrupted" \in output.markers
             /\ interrupts' = interrupts)
          => /\ sh_pc' = "idle"
             /\ sink_ok[1] =>
                   \E i \in (Len(log[1]) + 1)..Len(log'[1]) :
                      log'[1][i] = <<"OUTPUT", cmd_i[1]>>
      ]_vars

\* a command was interrupted after it had collected a genuine output line,
\* the cleanup ran, and the channel is about to be closed
C21_Witness ==
    /\ sh_pc = "close"
    /\ interrupts = 1
    /\ output.data > 0
    /\ output.keep
    /\ output.markers = {"interrupted"}

\* ------------------------------------------------------- sanitize_filename
\* file names: the letters of a reserved name, the characters strip('.-')
\* removes, the underscore and one character that is replaced
FileChars == {"c", "o", "n", ".", "-", "_", "/"}
Filenames == UNION {[1..n -> FileChars] : n \in 0..(FilenameMax + 1)}

InitSanitize ==
    /\ InitIdle
    /\ call \in [fn : {"sanitize"}, filename : Filenames]
    /\ result = NoResult

\* sanitize_filename applied to a name and to its own result
SanitizeTwice ==
    /\ main_pc = "static"
    /\ call # NoCall
    /\ call.fn = "sanitize"
    /\ result = NoResult
    /\ LET once == sanitize_filename(call.filename)
       IN  result' = [once |-> once, twice |-> sanitize_filename(once)]
    /\ UNCHANGED staticFrame

NextSanitize == SanitizeTwice

SpecSanitize == InitSanitize /\ [][NextSanitize]_vars

\* C22 (as claimed): sanitize_filename is idempotent and returns a non-empty
\* string for every input.
C22_IdempotentTotal ==
    (result # NoResult /\ call # NoCall /\ call.fn = "sanitize")
    => (result.once # <<>> /\ result.twice = result.once)

\* ------------------------------------------------------ parse_command_list
\* The limits of the code, scaled down: CommandLenMax stands for the 1000
\* characters of a command, MaxCommands for the cap of 50 commands and
\* CommandsStrMax (their product, as in the code) for the 50000 characters
\* of the list.
CommandLenMax == 2
MaxCommands == 2
CommandsStrMax == 4
CommandsStrLen == 8
Nul == "\\0"
Quotes == {"'", "\""}
Whitespace == {" ", "\n"}
CommandChars == {"a", "b", ",", " "}
CommandStrings == UNION {[1..n -> CommandChars] : n \in 0..CommandsStrLen}

\* str.split(sep)
RECURSIVE Split(_, _)
Split(str, sep) ==
    IF \A i \in 1..Len(str) : str[i] # sep
    THEN <<str>>
    ELSE LET k == CHOOSE i \in 1..Len(str) :
                      str[i] = sep /\ \A j \in 1..(i - 1) : str[j] # sep
         IN  <<SubSeq(str, 1, k - 1)>> \o Split(SubSeq(str, k + 1, Len(str)), sep)

\* str.strip(chars)
Strip(str, chars) == LStrip(RStrip(str, chars), chars)

validate_command(command) ==
    /\ command # <<>>
    /\ Len(command) <= CommandLenMax
    /\ \A i \in 1..Len(command) : command[i] # Nul

\* the loop of parse_command_list over the pieces of the split
RECURSIVE ValidCommands(_)
ValidCommands(pieces) ==
    IF pieces = <<>> THEN <<>>
    ELSE LET clean_cmd == Strip(Strip(Strip(Head(pieces), Whitespace), Quotes),
                                Whitespace)
         IN  (IF clean_cmd # <<>> /\ validate_command(clean_cmd)
              THEN <<clean_cmd>> ELSE <<>>)
             \o ValidCommands(Tail(pieces))

parse_command_list(commands_str) ==
    IF commands_str = <<>> THEN <<>>
    ELSE LET truncated == IF Len(commands_str) > CommandsStrMax
                          THEN SubSeq(commands_str, 1, CommandsStrMax)
                          ELSE commands_str
             commands_found == ValidCommands(Split(Strip(truncated, Quotes), ","))
         IN  IF Len(commands_found) > MaxCommands
             THEN SubSeq(commands_found, 1, MaxCommands)
             ELSE commands_found

InitParseCommands ==
    /\ InitIdle
    /\ call \in [fn : {"parse_commands"}, commands_str : CommandStrings]
    /\ result = NoResult

ParseCommandList ==
    /\ main_pc = "static"
    /\ call # NoCall
    /\ call.fn = "parse_commands"
    /\ result = NoResult
    /\ result' = [parsed |-> parse_command_list(call.commands_str)]
    /\ UNCHANGED staticFrame

NextParseCommands == ParseCommandList

SpecParseCommands == InitParseCommands /\ [][NextParseCommands]_vars

\* the entries of the list are all valid commands, written without
\* surrounding blanks, and there are more of them than the cap
MoreValidEntriesThanCap ==
    LET entries == Split(call.commands_str, ",")
    IN  /\ Len(entries) > MaxCommands
        /\ \A i \in 1..Len(entries) :
              /\ validate_command(entries[i])
              /\ Strip(entries[i], Whitespace) = entries[i]

\* C23 (as claimed): of a list with more valid entries than the cap,
\* parse_command_list returns exactly the first MaxCommands entries, in
\* their order.
C23_FirstEntriesInOrder ==
    (result # NoResult /\ call # NoCall /\ call.fn = "parse_commands"
        /\ MoreValidEntriesThanCap)
    => /\ Len(result.parsed) = MaxCommands
       /\ \A i \in 1..MaxCommands :
             result.parsed[i] = Split(call.commands_str, ",")[i]

\* ------------------------------------------------------- validate_hostname
\* host name strings: a letter that is also a hexadecimal digit, the
\* punctuation of names and of IPv6 literals, and the newline (a whitespace
\* and a control character)
HostChars == {"a", ".", "-", ":", "\n"}
Hostnames == UNION {[1..n -> HostChars] : n \in 0..(HostnameMax + 1)}

InitValidateHost ==
    /\ InitIdle
    /\ call \in [fn : {"validate_hostname"}, hostname : Hostnames]
    /\ result = NoResult

ValidateHostname ==
    /\ main_pc = "static"
    /\ call # NoCall
    /\ call.fn = "validate_hostname"
    /\ result = NoResult
    /\ result' = [valid |-> validate_hostname(call.hostname)]
    /\ UNCHANGED staticFrame

NextValidateHost == ValidateHostname

SpecValidateHost == InitValidateHost /\ [][NextValidateHost]_vars

\* the hostname grammar: an IP literal or a sequence of RFC 1123 labels, of
\* at most HostnameMax characters
HostnameGrammar(str) ==
    /\ str # <<>>
    /\ Len(str) <= HostnameMax
    /\ IsIPv6(str) \/ IsLabelSequence(str)

\* C24 (as claimed): validate_hostname accepts every string of the hostname
\* grammar and rejects every string that is empty, too long, or contains a
\* whitespace or control character.
C24_GrammarAcceptedRestRejected ==
    (result # NoResult /\ call # NoCall /\ call.fn = "validate_hostname")
    => /\ HostnameGrammar(call.hostname) => result.valid
       /\ (\/ call.hostname = <<>>
           \/ Len(call.hostname) > HostnameMax
           \/ \E i \in 1..Len(call.hostname) : call.hostname[i] \in Whitespace)
          => ~result.valid

\* ------------------------------------------------- failure of the log sink
\* C25: when the per-host log file cannot be written, a write leaves the
\* file as it is and raises nothing (an exception escapes the task only from
\* the finally block); a shell-mode command that returns counts as succeeded
\* exactly when its cleaned output is non-empty and free of error patterns,
\* and the loop goes on to the next command or, after the last one, returns
\* that success value, whether or not the file can be written; without a
\* Ctrl+C every command of a connected host is started.
C25_SinkFailureContained ==
    [][/\ ~sink_ok[1] => log'[1] = log[1]
       /\ (raised'[1] /\ ~raised[1]) => pc[1] = "finally"
       /\ (use_shell /\ pc[1] = "exec" /\ sh_pc = "close" /\ sh_pc' = "idle"
              /\ interrupts' = interrupts)
          => LET ok == (output.keep \/ output.markers # {}) /\ ~output.err
             IN  /\ overall_success'[1] = (overall_success[1] /\ ok)
                 /\ IF cmd_i[1] = Len(commands)
                    THEN /\ pc'[1] = "finally"
                         /\ task_ret'[1] = IF Len(commands) = 1 THEN ok
                                           ELSE overall_success'[1]
                    ELSE /\ pc'[1] = "exec"
                         /\ cmd_i'[1] = cmd_i[1] + 1
       /\ (pc[1] = "exec" /\ pc'[1] = "finally" /\ interrupts' = 0)
          => cmd_i[1] = Len(commands)
      ]_vars

\* a host whose log file could not be written ran both its commands and
\* succeeded
C25_Witness ==
    /\ ~sink_ok[1]
    /\ use_shell
    /\ pc[1] = "done"
    /\ sent[1] = <<1, 2>>
    /\ task_ret[1] = TRUE
    /\ app_ret = TRUE
    /\ log[1] = <<>>

\* ---------------------------------------------------------- the exit code
\* every command of the list returned success = True (read from the host's
\* log, when it can be written)
AllCommandsSucceeded ==
    \A k \in 1..Len(commands) :
       \E i \in 1..Len(log[1]) : log[1][i] = <<"executed successfully", k>>

Completions == [exit : {0, 1}, stdout : BOOLEAN, stderr : BOOLEAN]
RaisesAt(phase) == [raises |-> phase]
PtyAttempts ==
    {RaisesAt("open"), RaisesAt("pty"), RaisesAt("read")} \cup Completions
PlainAttempts == {RaisesAt("open"), RaisesAt("read")} \cup Completions
DirectCalls == [use_shell : {FALSE}, pty : PtyAttempts, plain : PlainAttempts]

\* What a shell-mode command meets: the statement of the main path that
\* raises, if any (invoke_shell; the initial-prompt wait; shell.send; a
\* shell.recv of the collection or drain loop), whether the exit/cleanup
\* exchange and shell.close() raise, the lines that were collected and the
\* lines the device sends after them, which the cleanup reads.
ShellPhases == {"invoke_shell", "prompt", "send", "recv"}
TrailingLines == {<<>>, <<"plain">>, <<"error">>}
ShellCalls ==
    [use_shell : {TRUE}, raises_at : {"none"} \cup ShellPhases,
     cleanup_raises : BOOLEAN, close_raises : BOOLEAN,
     lines : CollectedOutputs, trailing : TrailingLines]

Raises(a) == "raises" \in DOMAIN a
\* the device started running the command in this attempt
Started(a) == Raises(a) => a.raises = "read"

\* the return statement of either branch of _execute_direct
DirectReturn(a) ==
    [success |-> a.exit = 0, stdout |-> a.stdout, stderr |-> a.stderr,
     error |-> ""]

Failure(text) ==
    [success |-> FALSE, stdout |-> FALSE, stderr |-> TRUE, error |-> text]

\* _execute_direct: the exec_command calls it made (with or without PTY, and
\* whether the device started the command), and what it returned or that it
\* raised (raise e2)
execute_direct(c) ==
    IF ~Raises(c.pty)
    THEN [attempts |-> <<[get_pty |-> TRUE, started |-> TRUE]>>,
          raised |-> FALSE, ret |-> DirectReturn(c.pty)]
    ELSE LET attempts == <<[get_pty |-> TRUE, started |-> Started(c.pty)],
                           [get_pty |-> FALSE, started |-> Started(c.plain)]>>
         IN  IF ~Raises(c.plain)
             THEN [attempts |-> attempts, raised |-> FALSE,
                   ret |-> DirectReturn(c.plain)]
             ELSE [attempts |-> attempts, raised |-> TRUE, ret |-> NoResult]

\* the post-processing of the collected output and the return statement
ShellReturnValue(lines) ==
    LET cleaned_lines == CleanLines(lines, FALSE)
    IN  [attempts |-> <<>>, raised |-> FALSE, cleaned |-> cleaned_lines,
         ret |-> [success |-> SuccessDetermination(cleaned_lines),
                  stdout |-> cleaned_lines # <<>>, stderr |-> FALSE,
                  error |-> ""]]

ShellFailure(text) ==
    [attempts |-> <<>>, raised |-> FALSE, cleaned |-> <<>>,
     ret |-> Failure(text)]

\* mutant of execute_with_shell: an exception of cleanup or close reaches
\* the handler at the end of the method
execute_with_shell_CleanupFatal(c) ==
    IF c.raises_at = "send" THEN ShellFailure("Failed to send command")
    ELSE IF c.raises_at \in ShellPhases
    THEN ShellFailure("Shell execution error")
    ELSE IF c.cleanup_raises \/ c.close_raises
    THEN ShellFailure("Shell execution error")
    ELSE ShellReturnValue(c.lines)

\* _execute_with_shell: a failed send returns at once, any other exception
\* of the main path reaches `except Exception` at the end of the method; the
\* exceptions of cleanup and close are logged only, and what the cleanup
\* reads is dropped
execute_with_shell(c) ==
    IF c.raises_at = "send" THEN ShellFailure("Failed to send command")
    ELSE IF c.raises_at \in ShellPhases
    THEN ShellFailure("Shell execution error")
    ELSE ShellReturnValue(c.lines)

\* mutant of ExceptException: execute_command has no except clauses
ExceptException_Missing(r) == r

\* the except clauses of execute_command
ExceptException(r) ==
    IF r.raised
    THEN [r EXCEPT !.raised = FALSE, !.ret = Failure("Execution error")]
    ELSE r

\* execute_command on a connected runner
execute_command(c) ==
    ExceptException(IF c.use_shell THEN execute_with_shell(c)
                    ELSE execute_direct(c))

InitExecute ==
    /\ InitIdle
    /\ call \in DirectCalls \cup ShellCalls
    /\ result = NoResult

ExecuteCommand ==
    /\ main_pc = "static"
    /\ result = NoResult
    /\ result' = execute_command(call)
    /\ UNCHANGED staticFrame

NextExecute == ExecuteCommand

SpecExecute == InitExecute /\ [][NextExecute]_vars

\* C27 (as claimed): the fallback without a pseudo-terminal happens at most
\* once per command and only when the channel with a pseudo-terminal could
\* not be set up; a command that started running on its PTY channel is not
\* sent a second time; a failing fallback is returned as a failed result.
C27_FallbackOnlyOnPtyFailure ==
    (result # NoResult /\ ~call.use_shell)
    => /\ Len(result.attempts) <= 2
       /\ Len(result.attempts) = 2
          => call.pty \in {RaisesAt("open"), RaisesAt("pty")}
       /\ result.attempts[1].started => Len(result.attempts) = 1
       /\ (Len(result.attempts) = 2 /\ Raises(call.plain))
          => (~result.raised /\ ~result.ret.success /\ result.ret.error # "")

\* an exception was raised while the command was executed
ErrorRaised(c) ==
    IF c.use_shell
    THEN c.raises_at # "none" \/ c.cleanup_raises \/ c.close_raises
    ELSE Raises(c.pty)

\* an exception ended the execution of the command: in direct mode the
\* attempt without PTY raised too, in shell mode invoke_shell, the prompt
\* wait, send or a recv of the collection raised
ErrorEndsExecution(c) ==
    IF c.use_shell THEN c.raises_at # "none"
    ELSE Raises(c.pty) /\ Raises(c.plain)

\* C28 (as claimed): no exception leaves execute_command, and whenever an
\* error was raised while the command was executed the result is a failure
\* with a non-empty error text.
C28_EveryErrorFails ==
    result # NoResult
    => /\ ~result.raised
       /\ ErrorRaised(call)
          => (~result.ret.success /\ result.ret.error # "")

\* C28: no exception leaves execute_command; an error that ended the
\* execution gives a failure with a non-empty error text and no output; an
\* error of the PTY attempt that the attempt without PTY recovered, and the
\* errors of cleanup and close, leave the result to the exit status or the
\* collected output.
C28_EndingErrorFails ==
    result # NoResult
    => /\ ~result.raised
       /\ ErrorEndsExecution(call)
          => (~result.ret.success /\ result.ret.error # ""
              /\ ~result.ret.stdout)
       /\ ~ErrorEndsExecution(call) => result.ret.error = ""

\* a recv of the collection loop raised and the result is a failure
C28_Witness ==
    /\ result # NoResult
    /\ call.use_shell
    /\ call.raises_at = "recv"
    /\ ~result.ret.success
    /\ result.ret.error = "Shell execution error"

\* ============================== command validation ahead of the execution
\* The commands of a run as they come from the command line, the .env file,
\* the CSV file or the prompt, before run_application validates them.
RawCommandChars == {"a", Nul}
RawCommands ==
    UNION {[1..n -> RawCommandChars] : n \in 0..(CommandLenMax + 1)}
RawCommandLists == UNION {[1..n -> RawCommands] : n \in 0..MaxCmds}

\* mutant of ValidatedCommands: every command is kept
ValidatedCommands_NoCheck(commands_to_run) == commands_to_run

\* the validation loop of run_application: validated_commands
ValidatedCommands(commands_to_run) ==
    SelectSeq(commands_to_run, validate_command)

InitCommands ==
    /\ InitIdle
    /\ call \in [fn : {"run_application"}, commands_to_run : RawCommandLists]
    /\ result = NoResult

\* run_application from the validation of the commands to the start of the
\* execution: without a valid command it returns False, otherwise the valid
\* commands are handed to the host functions
ValidateCommands ==
    /\ main_pc = "static"
    /\ call # NoCall
    /\ call.fn = "run_application"
    /\ result = NoResult
    /\ LET validated_commands == ValidatedCommands(call.commands_to_run)
       IN  result' = [commands |-> validated_commands,
                      returned |-> validated_commands = <<>>,
                      executed |-> <<>>]
    /\ UNCHANGED staticFrame

\* the command loop of a host function: execute_command(command) for the
\* next command of the list it was given
ExecuteNextCommand ==
    /\ main_pc = "static"
    /\ call # NoCall
    /\ call.fn = "run_application"
    /\ result # NoResult
    /\ ~result.returned
    /\ Len(result.executed) < Len(result.commands)
    /\ result' = [result EXCEPT !.executed =
                     Append(@, result.commands[Len(@) + 1])]
    /\ UNCHANGED staticFrame

NextCommands == ValidateCommands \/ ExecuteNextCommand

SpecCommands == InitCommands /\ [][NextCommands]_vars

\* C29: every command handed to execute_command passed validate_command (it
\* is not empty, not longer than the limit and holds no NUL); the commands
\* that are executed are the valid ones of the input, in their order, and
\* with no valid command the run returns before anything is executed.
C29_OnlyValidCommandsExecuted ==
    (result # NoResult /\ call # NoCall /\ call.fn = "run_application")
    => /\ \A i \in 1..Len(result.executed) :
            LET command == result.executed[i]
            IN  /\ command # <<>>
                /\ Len(command) <= CommandLenMax
                /\ Nul \notin {command[j] : j \in 1..Len(command)}
       /\ \A i \in 1..Len(result.executed) :
            \E j \in 1..Len(call.commands_to_run) :
              call.commands_to_run[j] = result.executed[i]
       /\ (\A j \in 1..Len(call.commands_to_run) :
              ~validate_command(call.commands_to_run[j]))
          => (result.returned /\ result.executed = <<>>)

\* a list with a command that holds a NUL and a valid command: the valid one
\* alone was executed
C29_Witness ==
    /\ result # NoResult
    /\ call # NoCall
    /\ call.fn = "run_application"
    /\ call.commands_to_run = <<<<"a", Nul>>, <<"a">>>>
    /\ result.executed = <<<<"a">>>>

\* ===================================== the collection loop, chunk by chunk
\* The loop of _execute_with_shell with the chunks kept apart: every
\* shell.recv of the loops takes the next piece of the device's stream, so
\* the n-th recv of the collection loop returns piece n. A retained chunk is
\* recorded with its number, its size and the time it was received.
LoopStart == 0..MaxTotalWait
ChunkSizes == 1..RecvMax

\* len(output) without the markers
OutputSize(chunks) ==
    LET F[i \in 0..Len(chunks)] ==
            IF i = 0 THEN 0 ELSE F[i - 1] + chunks[i].size
    IN  F[Len(chunks)]

\* the variables of the loop when it is entered `elapsed` after start_time
LoopEntry(elapsed) ==
    [pc |-> "collect", now |-> elapsed, last_data_time |-> elapsed,
     drain_start |-> 0, chunks |-> <<>>, markers |-> {}, chunk_count |-> 0,
     exit |-> "none"]

LoopExit(s, reason) == [s EXCEPT !.pc = "done", !.exit = reason]

\* mutant of TimerAfterChunk: a chunk leaves the silence timer alone
TimerAfterChunk_NoReset(now_, last) == last

\* last_data_time = time.time() after a recv
TimerAfterChunk(now_, last) == now_

\* one pass of the collection loop
CollectPass(s, ready, d, size) ==
    IF ~(s.now < MaxTotalWait) THEN LoopExit(s, "ceiling")
    ELSE IF HangDetected(s.now)
    THEN LoopExit([s EXCEPT !.markers = @ \cup {"timeout"}], "hang")
    ELSE IF ready
    THEN LET got == [s EXCEPT
                       !.chunks = Append(@, [piece |-> s.chunk_count + 1,
                                             size |-> size, at |-> s.now]),
                       !.chunk_count = @ + 1,
                       !.last_data_time = TimerAfterChunk(s.now, @)]
         IN  IF OutputSize(got.chunks) > MaxOutputSize
             THEN [got EXCEPT !.markers = @ \cup {"truncated"},
                              !.drain_start = s.now, !.pc = "drain"]
             ELSE [got EXCEPT !.now = @ + d]
    ELSE IF s.now - s.last_data_time >= NoDataTimeout
    THEN LoopExit(s, "silence")
    ELSE [s EXCEPT !.now = @ + d]

\* mutant of DrainPass: what the drain loop receives is retained
DrainPass_Retains(s, ready, d) ==
    IF ~(s.now - s.drain_start < MaxDrainTime) THEN LoopExit(s, "truncated")
    ELSE IF ready
    THEN [s EXCEPT !.chunks = Append(@, [piece |-> s.chunk_count + 1,
                                         size |-> 1, at |-> s.now]),
                   !.last_data_time = TimerAfterChunk(s.now, @),
                   !.now = @ + d]
    ELSE IF s.now - s.last_data_time >= NoDataTimeout
    THEN LoopExit(s, "truncated")
    ELSE [s EXCEPT !.now = @ + d]

\* one pass of the drain loop: what is received is dropped
DrainPass(s, ready, d) ==
    IF ~(s.now - s.drain_start < MaxDrainTime) THEN LoopExit(s, "truncated")
    ELSE IF ready
    THEN [s EXCEPT !.last_data_time = TimerAfterChunk(s.now, @),
                   !.now = @ + d]
    ELSE IF s.now - s.last_data_time >= NoDataTimeout
    THEN LoopExit(s, "truncated")
    ELSE [s EXCEPT !.now = @ + d]

InitCollect ==
    /\ InitIdle
    /\ call \in [fn : {"collect"}, elapsed : LoopStart]
    /\ result = LoopEntry(call.elapsed)

CollectLoopPass ==
    /\ main_pc = "static"
    /\ result.pc = "collect"
    /\ \E ready \in BOOLEAN, d \in Steps, size \in ChunkSizes :
         result' = CollectPass(result, ready, d, size)
    /\ UNCHANGED staticFrame

DrainLoopPass ==
    /\ main_pc = "static"
    /\ result.pc = "drain"
    /\ \E ready \in BOOLEAN, d \in Steps :
         result' = DrainPass(result, ready, d)
    /\ UNCHANGED staticFrame

\* KeyboardInterrupt inside either loop
LoopInterrupt ==
    /\ main_pc = "static"
    /\ result.pc \in {"collect", "drain"}
    /\ result' = LoopExit([result EXCEPT !.markers = @ \cup {"interrupted"}],
                          "interrupted")
    /\ UNCHANGED staticFrame

NextCollect == CollectLoopPass \/ DrainLoopPass \/ LoopInterrupt

SpecCollect == InitCollect /\ [][NextCollect]_vars

\* C30: the collection loop ends by silence only when the time since the
\* last received chunk (since the entry of the loop when there is none) has
\* reached no_data_timeout; every received chunk resets the silence timer
\* to the time of its receipt and is appended after the chunks received
\* before it; and a pass of the loop that starts less than no_data_timeout
\* after the last chunk, before the hard timeout, ends the collection only
\* through the size limit.
C30_SilenceOnlyAfterThreshold ==
    /\ [](result.exit = "silence"
            => /\ result.now - result.last_data_time >= NoDataTimeout
               /\ result.last_data_time =
                     IF result.chunks = <<>> THEN call.elapsed
                     ELSE result.chunks[Len(result.chunks)].at)
    /\ []((result.pc = "collect" /\ result.chunks # <<>>)
            => result.last_data_time = result.chunks[Len(result.chunks)].at)
    /\ [](\A i \in 1..Len(result.chunks) : result.chunks[i].piece = i)
    /\ [][(/\ result.pc = "collect"
           /\ result.now - result.last_data_time < NoDataTimeout
           /\ ~HangDetected(result.now)
           /\ result'.exit # "interrupted")
          => /\ result'.pc \in {"collect", "drain"}
             /\ result'.pc = "drain"
                => OutputSize(result'.chunks) > MaxOutputSize
             /\ \A i \in 1..Len(result.chunks) :
                  result'.chunks[i] = result.chunks[i]]_vars

\* two chunks were received in the same interval and kept in their order,
\* then the device fell silent and the loop ended at the threshold
C30_Witness ==
    /\ result.exit = "silence"
    /\ Len(result.chunks) = 2
    /\ result.chunks[1].at = result.chunks[2].at
    /\ result.now - result.last_data_time = NoDataTimeout

\* C31 (as claimed): whenever the collection loop ends because of the time
\* elapsed since the start of the command (the test of the while statement
\* or the hard timeout), the timeout marker has been appended to the output.
C31_ElapsedExitHasMarker ==
    result.exit \in {"ceiling", "hang"} => "timeout" \in result.markers

\* C32: once the size limit is exceeded the truncation marker is in the
\* buffer and the drain loop runs; its passes leave the retained chunks and
\* the markers as they are (an interrupt alone adds its marker); the drain
\* ends, without an interrupt, only when nothing was received for
\* no_data_timeout or when max_drain_time has elapsed; and after the end of
\* the loop nothing more is collected.
C32_DrainKeepsBuffer ==
    /\ [](result.pc = "drain"
            => /\ "truncated" \in result.markers
               /\ OutputSize(result.chunks) > MaxOutputSize)
    /\ [][result.pc = "drain"
          => /\ result'.pc \in {"drain", "done"}
             /\ result'.chunks = result.chunks
             /\ result'.chunk_count = result.chunk_count
             /\ result'.markers \in {result.markers,
                                     result.markers \cup {"interrupted"}}
             /\ result'.exit = "truncated"
                => /\ result'.markers = result.markers
                   /\ \/ result.now - result.last_data_time >= NoDataTimeout
                      \/ result.now - result.drain_start >= MaxDrainTime]_vars
    /\ [][result.pc = "done" => result' = result]_vars

\* the drain went on receiving after the limit was exceeded and ended by
\* max_drain_time
C32_Witness ==
    /\ result.exit = "truncated"
    /\ result.last_data_time > result.drain_start
    /\ result.now - result.drain_start >= MaxDrainTime
    /\ OutputSize(result.chunks) > MaxOutputSize

\* the lines of one kind in a sequence of lines
LinesOfKind(lines, kind) ==
    Cardinality({i \in 1..Len(lines) : lines[i] = kind})

\* C33 (as claimed): cleaning drops the first echo of the command and no
\* other line for being an echo: a later echo is kept, and a line of the
\* device's output that contains the text of the command is kept whether or
\* not an echo came before it.
C33_EchoRemovedOnce ==
    (result # NoResult /\ call # NoCall /\ call.fn = "judge")
    => /\ LinesOfKind(result.cleaned, "mention")
             = LinesOfKind(call.lines, "mention")
       /\ LinesOfKind(call.lines, "echo") > 0
          => LinesOfKind(result.cleaned, "echo")
                = LinesOfKind(call.lines, "echo") - 1

\* C34: when the collection of a shell-mode command ended without an
\* exception, the result is the post-processing of the lines collected
\* before the cleanup, whether or not the exit exchange or shell.close()
\* raised and whatever the device sent during the cleanup: the success flag
\* and the cleaned output are those of the same command with a cleanup that
\* met no error and read nothing.
C34_CleanupLeavesResult ==
    (result # NoResult /\ call.use_shell /\ call.raises_at = "none")
    => LET cleaned_lines == CleanLines(call.lines, FALSE)
       IN  /\ ~result.raised
           /\ result.cleaned = cleaned_lines
           /\ result.ret.success = SuccessDetermination(cleaned_lines)
           /\ result.ret.error = ""
           /\ result = execute_command([call EXCEPT !.cleanup_raises = FALSE,
                                                    !.close_raises = FALSE,
                                                    !.trailing = <<>>])

\* the exit exchange and close both raised and the device sent an error line
\* during the cleanup; the command is a success with its one output line
C34_Witness ==
    /\ result # NoResult
    /\ call.use_shell
    /\ call.raises_at = "none"
    /\ call.cleanup_raises
    /\ call.close_raises
    /\ call.trailing = <<"error">>
    /\ call.lines = <<"echo", "plain">>
    /\ result.ret.success
    /\ result.cleaned = <<"plain">>

\* the host function ran to its end after a successful connect and without
\* a Ctrl+C, and its log can be read
RanUninterrupted ==
    /\ main_pc = "done"
    /\ connErr[1] = "none"
    /\ interrupts = 0
    /\ sink_ok[1]

C36_FooterAgreesWithReturn ==
    (pc[1] = "done" /\ sink_ok[1] /\ ~raised[1] /\ ~propagating)
    => \E i \in 1..Len(log[1]) : log[1][i] = <<"footer", task_ret[1]>>

C38_SentWithoutPrompt ==
    [][(sh_pc = "prompt_wait" /\ sh_pc' # "prompt_wait"
           /\ interrupts' = interrupts)
       => (sh_pc' = "send" /\ cmd_i' = cmd_i /\ log' = log
           /\ overall_success' = overall_success)]_vars

\* C39 (as claimed): whenever _execute_with_shell has returned, every shell
\* channel that was opened for a command has been closed.
C39_NoChannelLeftOpen ==
    (use_shell /\ sh_pc = "idle" /\ interrupts = 0) => shell_open = 0

\* C40 (as claimed): a shell-mode command whose device sent no line that
\* survives cleaning is reported as failed, also when the harvester appended
\* one of its markers (hard timeout, truncation, interrupt) to the buffer.
C40_MarkersAreNotOutput ==
    [][(/\ sh_pc = "close"
        /\ pc[1] = "exec"
        /\ ~output.keep
        /\ output.markers # {}
        /\ sh_pc' = "idle"
        /\ interrupts' = interrupts)
       => ~overall_success'[1]]_vars

====
